---- MODULE Spec2Model ----
(***************************************************************************)
(* Model of the binary codec layer of sea-gis: the coordinate hierarchy,   *)
(* the Geometry tagged union, the geometry-kind registry, the EWKB codec   *)
(* (src/src/ewkb.rs) and the SpatiaLite codec (src/src/spatialite.rs).     *)
(*                                                                         *)
(* Representation choices                                                  *)
(*  - a byte is an integer in 0..255, a stream is a sequence of bytes;     *)
(*  - a u32 is a "word": its four bytes, most significant first (TLC       *)
(*    integers are too narrow for 0x80000000 and above);                   *)
(*  - an f64 is its IEEE-754 bit pattern: eight bytes, most significant    *)
(*    first;                                                               *)
(*  - the outcome of a fallible call is a record [tag, val, pos] with tag  *)
(*    "Ok", "Err" (an std::io::Error returned to the caller) or "Panic"    *)
(*    (panic!, assert_eq!, todo!, unwrap/expect on None).                  *)
(***************************************************************************)
EXTENDS Integers, Sequences, FiniteSets, TLC

(***************************************************************************)
(* Bounds of the model.                                                    *)
(***************************************************************************)
\* longest point sequence handed to a constructor
MaxPts == 2
\* longest ring sequence handed to a constructor
MaxRings == 1
\* longest ring-sequence collection handed to a constructor
MaxPolys == 1

(***************************************************************************)
(* Bytes, words and floats.                                                *)
(***************************************************************************)
BIG_ENDIAN == 0
LITTLE_ENDIAN == 1

Endianess == {"BigEndian", "LittleEndian"}

\* impl From<Endianess> for u8
EndianessToU8(e) == IF e = "BigEndian" THEN BIG_ENDIAN ELSE LITTLE_ENDIAN

Reverse(s) == [i \in 1..Len(s) |-> s[Len(s) + 1 - i]]

RECURSIVE Concat(_)
Concat(ss) == IF Len(ss) = 0 THEN <<>> ELSE Head(ss) \o Concat(Tail(ss))

\* the word of a number below 2^31
U32(n) == <<(n \div 16777216) % 256, (n \div 65536) % 256, (n \div 256) % 256, n % 256>>

\* the word 0x80000000 | n, for n below 2^24
U32Z(n) == <<128, (n \div 65536) % 256, (n \div 256) % 256, n % 256>>

\* the number of a word, saturating at 2^31 - 1
U32ToNat(w) ==
    IF w[1] >= 128 THEN 2147483647
    ELSE ((w[1] * 256 + w[2]) * 256 + w[3]) * 256 + w[4]

\* bit v (a power of two) of byte b
HasBit(b, v) == (b \div v) % 2 = 1
\* w | 0x20000000
OrSridBit(w) == [w EXCEPT ![1] = IF HasBit(w[1], 32) THEN w[1] ELSE w[1] + 32]
\* w & !0x20000000
ClearSridBit(w) == [w EXCEPT ![1] = IF HasBit(w[1], 32) THEN w[1] - 32 ELSE w[1]]

\* byteorder: WriteBytesExt::write_u8 / write_u32::<E> / write_f64::<E>
write_u8(b) == <<b>>
write_u32(w, e) == IF e = "BigEndian" THEN w ELSE Reverse(w)
write_f64(f, e) == IF e = "BigEndian" THEN f ELSE Reverse(f)

\* byteorder: ReadBytesExt::read_u8 / read_u32::<E> / read_f64::<E> at cursor p
\* (1-based index of the next unread byte); ok = FALSE is the short-read
\* error (ErrorKind::UnexpectedEof).
read_u8(s, p) ==
    IF p <= Len(s) THEN [ok |-> TRUE, val |-> s[p], pos |-> p + 1]
    ELSE [ok |-> FALSE, val |-> 0, pos |-> p]
read_u32(s, p, e) ==
    IF p + 3 <= Len(s)
    THEN [ok |-> TRUE,
          val |-> IF e = "BigEndian" THEN SubSeq(s, p, p + 3) ELSE Reverse(SubSeq(s, p, p + 3)),
          pos |-> p + 4]
    ELSE [ok |-> FALSE, val |-> <<>>, pos |-> p]
read_f64(s, p, e) ==
    IF p + 7 <= Len(s)
    THEN [ok |-> TRUE,
          val |-> IF e = "BigEndian" THEN SubSeq(s, p, p + 7) ELSE Reverse(SubSeq(s, p, p + 7)),
          pos |-> p + 8]
    ELSE [ok |-> FALSE, val |-> <<>>, pos |-> p]

\* `let x = value;` followed by the statements that use x
Let(value, rest(_)) == CHOOSE out \in {rest(x) : x \in {value}} : TRUE

\* outcomes
Ok(v, p) == [tag |-> "Ok", val |-> v, pos |-> p]
Err(kind) == [tag |-> "Err", val |-> kind, pos |-> 0]
Panic(msg) == [tag |-> "Panic", val |-> msg, pos |-> 0]
\* the process is ended by alloc::handle_alloc_error
Abort(msg) == [tag |-> "Abort", val |-> msg, pos |-> 0]

\* what the allocator answers to a request above one page
Allocations == {"granted", "failed"}

\* Vec::<T>::with_capacity(n), T of size bytes: TRUE when the buffer is
\* allocated.  A request of at most one page (4096 bytes) is granted; a larger
\* one is granted or not as the allocator decides (alloc), and a request that
\* is not granted ends the process.
with_capacity(n, size, alloc) == n <= 4096 \div size \/ alloc = "granted"

\* f64 bit patterns of the scalars used as inputs
F0 == <<0, 0, 0, 0, 0, 0, 0, 0>>
F1 == <<63, 240, 0, 0, 0, 0, 0, 0>>
F2 == <<64, 0, 0, 0, 0, 0, 0, 0>>
F10 == <<64, 36, 0, 0, 0, 0, 0, 0>>
F20 == <<64, 52, 0, 0, 0, 0, 0, 0>>

\* f64: NaN has all exponent bits set and a non-zero mantissa
IsNaN(f) ==
    /\ f[1] % 128 = 127
    /\ f[2] >= 240
    /\ (f[2] > 240 \/ \E i \in 3..8 : f[i] # 0)
\* f64: +0.0 or -0.0
IsZero(f) == f[1] % 128 = 0 /\ \A i \in 2..8 : f[i] = 0
\* f64 == (PartialEq)
F64Eq(a, b) == ~IsNaN(a) /\ ~IsNaN(b) /\ (a = b \/ (IsZero(a) /\ IsZero(b)))

(***************************************************************************)
(* Coordinate hierarchy (types/vectors.rs).  A Vector is a tuple of N      *)
(* floats, a VectorArray a sequence of Vectors, a VectorMatrix a sequence  *)
(* of VectorArrays, a VectorTensor a sequence of VectorMatrices.           *)
(***************************************************************************)
\* derived PartialEq of Vector, VectorArray, VectorMatrix, VectorTensor
VectorEq(a, b) == Len(a) = Len(b) /\ \A i \in 1..Len(a) : F64Eq(a[i], b[i])
VectorArrayEq(a, b) == Len(a) = Len(b) /\ \A i \in 1..Len(a) : VectorEq(a[i], b[i])
VectorMatrixEq(a, b) == Len(a) = Len(b) /\ \A i \in 1..Len(a) : VectorArrayEq(a[i], b[i])
VectorTensorEq(a, b) == Len(a) = Len(b) /\ \A i \in 1..Len(a) : VectorMatrixEq(a[i], b[i])

\* close_ring without the push: the ring stays as given
close_ring_no_push(a) == a

\* VectorArray::close_ring: first() and last() of an empty slice are both
\* None, so the push (and its expect) is reached only on a non-empty ring
close_ring(a) ==
    IF Len(a) = 0 THEN a
    ELSE IF ~VectorEq(a[1], a[Len(a)]) THEN Append(a, a[1]) ELSE a

(***************************************************************************)
(* Geometry kinds and the Geometry tagged union (types/mod.rs).            *)
(***************************************************************************)
Kinds2D == {"Point", "LineString", "Polygon", "MultiPoint", "MultiLineString", "MultiPolygon"}
Kinds3D == {"PointZ", "LineStringZ", "PolygonZ", "MultiPointZ", "MultiLineStringZ",
            "MultiPolygonZ"}
\* enum Geometry: the 12 variants
Variants == Kinds2D \cup Kinds3D
\* enum GeometryKind: the 14 kinds
GeometryKind == Variants \cup {"GeometryCollection", "GeometryCollectionZ"}

\* the const N of the variant's shape type
Dim(v) == IF v \in Kinds3D THEN 3 ELSE 2

\* the coordinate structure a variant holds (Geometry::borrow_coordinates)
Shape(v) ==
    CASE v \in {"Point", "PointZ"} -> "Vector"
      [] v \in {"LineString", "LineStringZ", "MultiPoint", "MultiPointZ"} -> "VectorArray"
      [] v \in {"Polygon", "PolygonZ", "MultiLineString", "MultiLineStringZ"} -> "VectorMatrix"
      [] v \in {"MultiPolygon", "MultiPolygonZ"} -> "VectorTensor"

\* the absent SRID (Option::None)
NoSrid == <<>>
\* lib.rs DEFAULT_SRID = 4326 = 0x10E6
DEFAULT_SRID == <<0, 0, 16, 230>>

\* the srid a constructor leaves: Point, MultiPoint and MultiLineString hold
\* an Option<u32> set to None; LineString, Polygon, MultiPolygon a u32 4326
NewSrid(v) ==
    IF v \in {"Point", "PointZ", "MultiPoint", "MultiPointZ",
              "MultiLineString", "MultiLineStringZ"}
    THEN NoSrid ELSE DEFAULT_SRID

\* Polygon::new closes every ring; the other constructors store the
\* coordinates as given
Polygon_new(c) ==
    [variant |-> "Polygon", coordinates |-> [i \in 1..Len(c) |-> close_ring(c[i])],
     srid |-> DEFAULT_SRID]

\* T::new(coordinates).into() for the shape type T of variant v
New(v, c) ==
    IF v \in {"Polygon", "PolygonZ"}
    THEN [Polygon_new(c) EXCEPT !.variant = v]
    ELSE [variant |-> v, coordinates |-> c, srid |-> NewSrid(v)]

\* Geometry::kind
kind(g) ==
    CASE g.variant = "Point" -> "Point"
      [] g.variant = "LineString" -> "LineString"
      [] g.variant = "Polygon" -> "Polygon"
      [] g.variant = "MultiPoint" -> "MultiPolygon"
      [] g.variant = "MultiLineString" -> "MultiLineString"
      [] g.variant = "MultiPolygon" -> "MultiPolygon"
      [] g.variant = "PointZ" -> "PointZ"
      [] g.variant = "LineStringZ" -> "LineStringZ"
      [] g.variant = "PolygonZ" -> "PolygonZ"
      [] g.variant = "MultiPointZ" -> "MultiPointZ"
      [] g.variant = "MultiLineStringZ" -> "MultiLineStringZ"
      [] g.variant = "MultiPolygonZ" -> "MultiPolygonZ"

\* impl AsRef<str> for GeometryKind
as_ref(k) ==
    CASE k \in {"Point", "PointZ"} -> "Point"
      [] k \in {"LineString", "LineStringZ"} -> "LineString"
      [] k \in {"Polygon", "PolygonZ"} -> "Polygon"
      [] k \in {"MultiPoint", "MultiPointZ"} -> "MultiPoint"
      [] k \in {"MultiLineString", "MultiLineStringZ"} -> "MultiLineString"
      [] k \in {"MultiPolygon", "MultiPolygonZ"} -> "MultiPolygon"
      [] k \in {"GeometryCollection", "GeometryCollectionZ"} -> "GeometryCollection"

\* Geometry::set_srid
set_srid(g, s) == [g EXCEPT !.srid = s]

\* Geometry::srid returns the variant's srid field as a u32.  The source does
\* not say which u32 a field holding None yields; that value is the
\* parameter fill, which the calling action leaves open.
srid(g, fill) == IF g.srid = NoSrid THEN fill ELSE g.srid

\* derived PartialEq of Geometry: same variant, equal coordinates, equal srid
GeometryEq(a, b) ==
    /\ a.variant = b.variant
    /\ a.srid = b.srid
    /\ CASE Shape(a.variant) = "Vector" -> VectorEq(a.coordinates, b.coordinates)
         [] Shape(a.variant) = "VectorArray" -> VectorArrayEq(a.coordinates, b.coordinates)
         [] Shape(a.variant) = "VectorMatrix" -> VectorMatrixEq(a.coordinates, b.coordinates)
         [] Shape(a.variant) = "VectorTensor" -> VectorTensorEq(a.coordinates, b.coordinates)

\* impl TryFrom<Geometry> for T, T the shape type of variant t
try_from(t, g) ==
    IF g.variant = t THEN Ok(g, 0)
    ELSE Err([expecting |-> t, got |-> kind(g)])

(***************************************************************************)
(* EWKB codec (ewkb.rs).                                                   *)
(***************************************************************************)
\* GeometryKind::encode_ewkb: the code table
EwkbCode(k) ==
    CASE k = "Point" -> U32(1)
      [] k = "LineString" -> U32(2)
      [] k = "Polygon" -> U32(3)
      [] k = "MultiPoint" -> U32(4)
      [] k = "MultiLineString" -> U32(5)
      [] k = "MultiPolygon" -> U32(6)
      [] k = "GeometryCollection" -> U32(7)
      [] k = "PointZ" -> U32Z(1)
      [] k = "LineStringZ" -> U32Z(2)
      [] k = "PolygonZ" -> U32Z(3)
      [] k = "MultiPointZ" -> U32Z(4)
      [] k = "MultiLineStringZ" -> U32Z(5)
      [] k = "MultiPolygonZ" -> U32Z(6)
      [] k = "GeometryCollectionZ" -> U32Z(7)

\* GeometryKind::encode_ewkb: stream.write_u32::<E>(encoded | 0x20000000)
GeometryKind_encode_ewkb(k, e) == write_u32(OrSridBit(EwkbCode(k)), e)

\* GeometryKind::decode_ewkb matching on the code as read, the SRID-present
\* bit left in place
GeometryKind_decode_ewkb_keep_bit(s, p, e) ==
    Let(read_u32(s, p, e), LAMBDA r :
    IF ~r.ok THEN Err("UnexpectedEof")
    ELSE IF \E k \in GeometryKind : EwkbCode(k) = r.val
         THEN Ok(CHOOSE k \in GeometryKind : EwkbCode(k) = r.val, r.pos)
         ELSE Panic("invalid EWKB geometry"))

\* GeometryKind::decode_ewkb
GeometryKind_decode_ewkb(s, p, e) ==
    Let(read_u32(s, p, e), LAMBDA r :
    IF ~r.ok THEN Err("UnexpectedEof")
    ELSE Let(ClearSridBit(r.val), LAMBDA w :
         CASE w = U32(1) -> Ok("Point", r.pos)
           [] w = U32(2) -> Ok("LineString", r.pos)
           [] w = U32(3) -> Ok("Polygon", r.pos)
           [] w = U32(4) -> Ok("MultiPoint", r.pos)
           [] w = U32(5) -> Ok("MultiLineString", r.pos)
           [] w = U32(6) -> Ok("MultiPolygon", r.pos)
           [] w = U32(7) -> Ok("GeometryCollection", r.pos)
           [] w = U32Z(1) -> Ok("PointZ", r.pos)
           [] w = U32Z(2) -> Ok("LineStringZ", r.pos)
           [] w = U32Z(3) -> Ok("PolygonZ", r.pos)
           [] w = U32Z(4) -> Ok("MultiPointZ", r.pos)
           [] w = U32Z(5) -> Ok("MultiLineStringZ", r.pos)
           [] w = U32Z(6) -> Ok("MultiPolygonZ", r.pos)
           [] w = U32Z(7) -> Ok("GeometryCollectionZ", r.pos)
           [] OTHER -> Panic("invalid EWKB geometry")))

\* Vector::encode_ewkb
Vector_encode_ewkb(v, e) == Concat([i \in 1..Len(v) |-> write_f64(v[i], e)])

\* VectorArray::encode_ewkb
VectorArray_encode_ewkb(a, e) ==
    write_u32(U32(Len(a)), e) \o Concat([i \in 1..Len(a) |-> Vector_encode_ewkb(a[i], e)])

\* VectorMatrix::encode_ewkb writing the number of points of all its point
\* sequences as its count
VectorMatrix_encode_ewkb_point_count(m, e) ==
    write_u32(U32(Len(Concat(m))), e)
    \o Concat([i \in 1..Len(m) |-> VectorArray_encode_ewkb(m[i], e)])

\* VectorMatrix::encode_ewkb
VectorMatrix_encode_ewkb(m, e) ==
    write_u32(U32(Len(m)), e) \o Concat([i \in 1..Len(m) |-> VectorArray_encode_ewkb(m[i], e)])

\* VectorTensor::encode_ewkb
VectorTensor_encode_ewkb(t, e) ==
    write_u32(U32(Len(t)), e) \o Concat([i \in 1..Len(t) |-> VectorMatrix_encode_ewkb(t[i], e)])

\* the match of encode_to_stream_with_endianess: the variant's encode_ewkb
Coordinates_encode_ewkb(g, e) ==
    CASE Shape(g.variant) = "Vector" -> Vector_encode_ewkb(g.coordinates, e)
      [] Shape(g.variant) = "VectorArray" -> VectorArray_encode_ewkb(g.coordinates, e)
      [] Shape(g.variant) = "VectorMatrix" -> VectorMatrix_encode_ewkb(g.coordinates, e)
      [] Shape(g.variant) = "VectorTensor" -> VectorTensor_encode_ewkb(g.coordinates, e)

\* EWKBGeometry::encode_to_stream_with_endianess (fill: see srid)
EWKB_encode_to_stream_with_endianess(g, e, fill) ==
    write_u8(EndianessToU8(e))
    \o GeometryKind_encode_ewkb(kind(g), e)
    \o write_u32(srid(g, fill), e)
    \o Coordinates_encode_ewkb(g, e)

\* Vector::decode_ewkb: n floats still to read into acc
RECURSIVE Vector_decode_ewkb_loop(_, _, _, _, _)
Vector_decode_ewkb_loop(s, p, e, n, acc) ==
    IF n = 0 THEN Ok(acc, p)
    ELSE Let(read_f64(s, p, e), LAMBDA r :
         IF ~r.ok THEN Err("UnexpectedEof")
         ELSE Vector_decode_ewkb_loop(s, r.pos, e, n - 1, Append(acc, r.val)))

Vector_decode_ewkb(s, p, e, N) == Vector_decode_ewkb_loop(s, p, e, N, <<>>)

\* VectorArray::decode_ewkb: n vectors still to read into acc
RECURSIVE VectorArray_decode_ewkb_loop(_, _, _, _, _, _)
VectorArray_decode_ewkb_loop(s, p, e, N, n, acc) ==
    IF n = 0 THEN Ok(acc, p)
    ELSE Let(Vector_decode_ewkb(s, p, e, N), LAMBDA r :
         IF r.tag # "Ok" THEN r
         ELSE VectorArray_decode_ewkb_loop(s, r.pos, e, N, n - 1, Append(acc, r.val)))

VectorArray_decode_ewkb(s, p, e, N, alloc) ==
    Let(read_u32(s, p, e), LAMBDA nb_points :
    IF ~nb_points.ok THEN Err("UnexpectedEof")
    ELSE IF ~with_capacity(U32ToNat(nb_points.val), 8 * N, alloc)
    THEN Abort("memory allocation failed")
    ELSE VectorArray_decode_ewkb_loop(s, nb_points.pos, e, N, U32ToNat(nb_points.val), <<>>))

\* VectorMatrix::decode_ewkb
RECURSIVE VectorMatrix_decode_ewkb_loop(_, _, _, _, _, _, _)
VectorMatrix_decode_ewkb_loop(s, p, e, N, n, acc, alloc) ==
    IF n = 0 THEN Ok(acc, p)
    ELSE Let(VectorArray_decode_ewkb(s, p, e, N, alloc), LAMBDA r :
         IF r.tag # "Ok" THEN r
         ELSE VectorMatrix_decode_ewkb_loop(s, r.pos, e, N, n - 1, Append(acc, r.val), alloc))

VectorMatrix_decode_ewkb(s, p, e, N, alloc) ==
    Let(read_u32(s, p, e), LAMBDA nb_points :
    IF ~nb_points.ok THEN Err("UnexpectedEof")
    ELSE IF ~with_capacity(U32ToNat(nb_points.val), 24, alloc)
    THEN Abort("memory allocation failed")
    ELSE VectorMatrix_decode_ewkb_loop(s, nb_points.pos, e, N, U32ToNat(nb_points.val), <<>>, alloc))

\* VectorTensor::decode_ewkb
RECURSIVE VectorTensor_decode_ewkb_loop(_, _, _, _, _, _, _)
VectorTensor_decode_ewkb_loop(s, p, e, N, n, acc, alloc) ==
    IF n = 0 THEN Ok(acc, p)
    ELSE Let(VectorMatrix_decode_ewkb(s, p, e, N, alloc), LAMBDA r :
         IF r.tag # "Ok" THEN r
         ELSE VectorTensor_decode_ewkb_loop(s, r.pos, e, N, n - 1, Append(acc, r.val), alloc))

VectorTensor_decode_ewkb(s, p, e, N, alloc) ==
    Let(read_u32(s, p, e), LAMBDA nb_points :
    IF ~nb_points.ok THEN Err("UnexpectedEof")
    ELSE IF ~with_capacity(U32ToNat(nb_points.val), 24, alloc)
    THEN Abort("memory allocation failed")
    ELSE VectorTensor_decode_ewkb_loop(s, nb_points.pos, e, N, U32ToNat(nb_points.val), <<>>, alloc))

\* GenPoint .. GenMultiPolygon::decode_ewkb: the coordinates, then Self::new
Shape_decode_ewkb(k, s, p, e, alloc) ==
    Let(CASE Shape(k) = "Vector" -> Vector_decode_ewkb(s, p, e, Dim(k))
               [] Shape(k) = "VectorArray" -> VectorArray_decode_ewkb(s, p, e, Dim(k), alloc)
               [] Shape(k) = "VectorMatrix" -> VectorMatrix_decode_ewkb(s, p, e, Dim(k), alloc)
               [] Shape(k) = "VectorTensor" -> VectorTensor_decode_ewkb(s, p, e, Dim(k), alloc),
        LAMBDA c : IF c.tag # "Ok" THEN c ELSE Ok(New(k, c.val), c.pos))

\* EWKBGeometry::decode_from_stream_with_endianess
EWKB_decode_from_stream_with_endianess(s, p, e, alloc) ==
    Let(GeometryKind_decode_ewkb(s, p, e), LAMBDA k :
    IF k.tag # "Ok" THEN k
    ELSE Let(read_u32(s, k.pos, e), LAMBDA sr :
         IF ~sr.ok THEN Err("UnexpectedEof")
         ELSE IF k.val \in {"GeometryCollection", "GeometryCollectionZ"}
              THEN Panic("not yet implemented")
              ELSE Let(Shape_decode_ewkb(k.val, s, sr.pos, e, alloc), LAMBDA g :
                   IF g.tag # "Ok" THEN g
                   ELSE Ok(set_srid(g.val, sr.val), g.pos))))

\* EWKBGeometry::decode_from_stream
EWKB_decode_from_stream(s, p, alloc) ==
    Let(read_u8(s, p), LAMBDA endianess :
    IF ~endianess.ok THEN Err("UnexpectedEof")
    ELSE IF endianess.val = BIG_ENDIAN
         THEN EWKB_decode_from_stream_with_endianess(s, endianess.pos, "BigEndian", alloc)
         ELSE EWKB_decode_from_stream_with_endianess(s, endianess.pos, "LittleEndian", alloc))

(***************************************************************************)
(* Bounding boxes (types/vectors.rs, types/*.rs, types/mbr.rs).            *)
(***************************************************************************)
\* the bytes of a float without its sign bit
Magnitude(f) == [f EXCEPT ![1] = f[1] % 128]
\* lexicographic order of two byte sequences of equal length
LexLess(a, b) ==
    \E i \in 1..Len(a) : a[i] < b[i] /\ \A j \in 1..(i - 1) : a[j] = b[j]

\* f64::partial_cmp
partial_cmp(a, b) ==
    IF IsNaN(a) \/ IsNaN(b) THEN "None"
    ELSE IF F64Eq(a, b) THEN "Equal"
    ELSE IF a[1] >= 128 /\ b[1] < 128 THEN "Less"
    ELSE IF a[1] < 128 /\ b[1] >= 128 THEN "Greater"
    ELSE IF a[1] < 128
         THEN (IF LexLess(Magnitude(a), Magnitude(b)) THEN "Less" ELSE "Greater")
         ELSE (IF LexLess(Magnitude(b), Magnitude(a)) THEN "Less" ELSE "Greater")

\* Iterator::min_by(|a, b| a.partial_cmp(b).unwrap()) over the outcomes xs,
\* from index i with the minimum so far in acc: keeps the earlier of equals
RECURSIVE min_by_fold(_, _, _)
min_by_fold(xs, i, acc) ==
    IF i > Len(xs) THEN Ok(acc, 0)
    ELSE IF partial_cmp(acc, xs[i].val) = "None" THEN Panic("partial_cmp is None")
    ELSE min_by_fold(xs, i + 1, IF partial_cmp(acc, xs[i].val) = "Greater" THEN xs[i].val ELSE acc)

\* Iterator::max_by(|a, b| a.partial_cmp(b).unwrap()): keeps the later of equals
RECURSIVE max_by_fold(_, _, _)
max_by_fold(xs, i, acc) ==
    IF i > Len(xs) THEN Ok(acc, 0)
    ELSE IF partial_cmp(acc, xs[i].val) = "None" THEN Panic("partial_cmp is None")
    ELSE max_by_fold(xs, i + 1, IF partial_cmp(acc, xs[i].val) = "Greater" THEN acc ELSE xs[i].val)

\* .min_by(..).unwrap() / .max_by(..).unwrap() over the mapped outcomes xs
min_by(xs) ==
    IF \E i \in 1..Len(xs) : xs[i].tag # "Ok" THEN Panic("inner")
    ELSE IF Len(xs) = 0 THEN Panic("unwrap on None")
    ELSE min_by_fold(xs, 2, xs[1].val)
max_by(xs) ==
    IF \E i \in 1..Len(xs) : xs[i].tag # "Ok" THEN Panic("inner")
    ELSE IF Len(xs) = 0 THEN Panic("unwrap on None")
    ELSE max_by_fold(xs, 2, xs[1].val)

\* min_y written as a copy of min_x: the scalar is always Vector::x
VectorArray_min_always_x(a, c) == min_by([i \in 1..Len(a) |-> Ok(a[i][1], 0)])

\* VectorArray::min_x / max_x / min_y / max_y (Vector::x is [0], Vector::y is [1])
VectorArray_min(a, c) == min_by([i \in 1..Len(a) |-> Ok(a[i][c], 0)])
VectorArray_max(a, c) == max_by([i \in 1..Len(a) |-> Ok(a[i][c], 0)])
\* VectorMatrix::min_x / max_x / min_y / max_y
VectorMatrix_min(m, c) == min_by([i \in 1..Len(m) |-> VectorArray_min(m[i], c)])
VectorMatrix_max(m, c) == max_by([i \in 1..Len(m) |-> VectorArray_max(m[i], c)])
\* VectorTensor::min_x / max_x / min_y / max_y
VectorTensor_min(t, c) == min_by([i \in 1..Len(t) |-> VectorMatrix_min(t[i], c)])
VectorTensor_max(t, c) == max_by([i \in 1..Len(t) |-> VectorMatrix_max(t[i], c)])

\* the minimum (c = 1: x, c = 2: y) of the variant's coordinate structure
Coordinates_min(g, c) ==
    CASE Shape(g.variant) = "Vector" -> Ok(g.coordinates[c], 0)
      [] Shape(g.variant) = "VectorArray" -> VectorArray_min(g.coordinates, c)
      [] Shape(g.variant) = "VectorMatrix" -> VectorMatrix_min(g.coordinates, c)
      [] Shape(g.variant) = "VectorTensor" -> VectorTensor_min(g.coordinates, c)
Coordinates_max(g, c) ==
    CASE Shape(g.variant) = "Vector" -> Ok(g.coordinates[c], 0)
      [] Shape(g.variant) = "VectorArray" -> VectorArray_max(g.coordinates, c)
      [] Shape(g.variant) = "VectorMatrix" -> VectorMatrix_max(g.coordinates, c)
      [] Shape(g.variant) = "VectorTensor" -> VectorTensor_max(g.coordinates, c)

\* Geometry::mbr: the variant's mbr()
mbr(g) ==
    LET min_x == Coordinates_min(g, 1)
        max_x == Coordinates_max(g, 1)
        min_y == Coordinates_min(g, 2)
        max_y == Coordinates_max(g, 2)
    IN IF min_x.tag # "Ok" \/ max_x.tag # "Ok" \/ min_y.tag # "Ok" \/ max_y.tag # "Ok"
       THEN Panic("mbr")
       ELSE Ok([min_x |-> min_x.val, min_y |-> min_y.val,
                max_x |-> max_x.val, max_y |-> max_y.val], 0)

(***************************************************************************)
(* SpatiaLite codec (spatialite.rs).                                       *)
(***************************************************************************)
\* GeometryKind::encode_spatialite: the code table
SpatialiteCode(k) ==
    CASE k = "Point" -> U32(1)
      [] k = "LineString" -> U32(2)
      [] k = "Polygon" -> U32(3)
      [] k = "MultiPoint" -> U32(4)
      [] k = "MultiLineString" -> U32(5)
      [] k = "MultiPolygon" -> U32(6)
      [] k = "GeometryCollection" -> U32(7)
      [] k = "PointZ" -> U32(1001)
      [] k = "LineStringZ" -> U32(1002)
      [] k = "PolygonZ" -> U32(1003)
      [] k = "MultiPointZ" -> U32(1004)
      [] k = "MultiLineStringZ" -> U32(10015)
      [] k = "MultiPolygonZ" -> U32(1006)
      [] k = "GeometryCollectionZ" -> U32(1007)

GeometryKind_encode_spatialite(k, e) == write_u32(SpatialiteCode(k), e)

\* GeometryKind::decode_spatialite
GeometryKind_decode_spatialite(s, p, e) ==
    Let(read_u32(s, p, e), LAMBDA r :
    IF ~r.ok THEN Err("UnexpectedEof")
    ELSE CASE r.val = U32(1) -> Ok("Point", r.pos)
           [] r.val = U32(2) -> Ok("LineString", r.pos)
           [] r.val = U32(3) -> Ok("Polygon", r.pos)
           [] r.val = U32(4) -> Ok("MultiPoint", r.pos)
           [] r.val = U32(5) -> Ok("MultiLineString", r.pos)
           [] r.val = U32(6) -> Ok("MultiPolygon", r.pos)
           [] r.val = U32(7) -> Ok("GeometryCollection", r.pos)
           [] r.val = U32(1001) -> Ok("PointZ", r.pos)
           [] r.val = U32(1002) -> Ok("LineStringZ", r.pos)
           [] r.val = U32(1003) -> Ok("PolygonZ", r.pos)
           [] r.val = U32(1004) -> Ok("MultiPointZ", r.pos)
           [] r.val = U32(1005) -> Ok("MultiLineStringZ", r.pos)
           [] r.val = U32(1006) -> Ok("MultiPolygonZ", r.pos)
           [] r.val = U32(1007) -> Ok("MultiLineStringZ", r.pos)
           [] OTHER -> Panic("unknown WKB geometry"))

\* MBR::encode_spatialite writing the fields in the order min_x, max_x, min_y, max_y
MBR_encode_spatialite_xxyy(m, e) ==
    write_f64(m.min_x, e) \o write_f64(m.max_x, e)
    \o write_f64(m.min_y, e) \o write_f64(m.max_y, e) \o write_u8(124)

\* MBR::encode_spatialite without its terminator byte 0x7C
MBR_encode_spatialite_no_end(m, e) ==
    write_f64(m.min_x, e) \o write_f64(m.min_y, e)
    \o write_f64(m.max_x, e) \o write_f64(m.max_y, e)

\* MBR::encode_spatialite
MBR_encode_spatialite(m, e) ==
    write_f64(m.min_x, e) \o write_f64(m.min_y, e)
    \o write_f64(m.max_x, e) \o write_f64(m.max_y, e) \o write_u8(124)

\* MBR::decode_spatialite refusing a rectangle whose minimum is not below its
\* maximum
MBR_decode_spatialite_checked(s, p, e) ==
    LET min_x == read_f64(s, p, e)
        min_y == read_f64(s, p + 8, e)
        max_x == read_f64(s, p + 16, e)
        max_y == read_f64(s, p + 24, e)
        mbr_end == read_u8(s, p + 32)
    IN IF ~min_x.ok \/ ~min_y.ok \/ ~max_x.ok \/ ~max_y.ok \/ ~mbr_end.ok
       THEN Err("UnexpectedEof")
       ELSE IF mbr_end.val # 124 THEN Panic("assertion failed: mbr_end == 0x7C")
       ELSE IF partial_cmp(min_x.val, max_x.val) \notin {"Less", "Equal"}
               \/ partial_cmp(min_y.val, max_y.val) \notin {"Less", "Equal"}
       THEN Err("invalid MBR")
       ELSE Ok([min_x |-> min_x.val, min_y |-> min_y.val,
                max_x |-> max_x.val, max_y |-> max_y.val], mbr_end.pos)

\* MBR::decode_spatialite
MBR_decode_spatialite(s, p, e) ==
    LET min_x == read_f64(s, p, e)
        min_y == read_f64(s, p + 8, e)
        max_x == read_f64(s, p + 16, e)
        max_y == read_f64(s, p + 24, e)
        mbr_end == read_u8(s, p + 32)
    IN IF ~min_x.ok \/ ~min_y.ok \/ ~max_x.ok \/ ~max_y.ok \/ ~mbr_end.ok
       THEN Err("UnexpectedEof")
       ELSE IF mbr_end.val # 124 THEN Panic("assertion failed: mbr_end == 0x7C")
       ELSE Ok([min_x |-> min_x.val, min_y |-> min_y.val,
                max_x |-> max_x.val, max_y |-> max_y.val], mbr_end.pos)

\* Vector::encode_spatialite
Vector_encode_spatialite(v, e) == Concat([i \in 1..Len(v) |-> write_f64(v[i], e)])

\* VectorArray::encode_spatialite without the count before the tuples
VectorArray_encode_spatialite_no_count(a, e) ==
    Concat([i \in 1..Len(a) |-> Vector_encode_spatialite(a[i], e)])

\* VectorArray::encode_spatialite
VectorArray_encode_spatialite(a, e) ==
    write_u32(U32(Len(a)), e)
    \o Concat([i \in 1..Len(a) |-> Vector_encode_spatialite(a[i], e)])

\* VectorMatrix::encode_spatialite
VectorMatrix_encode_spatialite(m, e) ==
    write_u32(U32(Len(m)), e)
    \o Concat([i \in 1..Len(m) |-> VectorArray_encode_spatialite(m[i], e)])

\* VectorTensor::encode_spatialite
VectorTensor_encode_spatialite(t, e) ==
    write_u32(U32(Len(t)), e)
    \o Concat([i \in 1..Len(t) |-> VectorMatrix_encode_spatialite(t[i], e)])

\* the match of encode_to_stream_with_endianess: the variant's encode_spatialite
Coordinates_encode_spatialite(g, e) ==
    CASE Shape(g.variant) = "Vector" -> Vector_encode_spatialite(g.coordinates, e)
      [] Shape(g.variant) = "VectorArray" -> VectorArray_encode_spatialite(g.coordinates, e)
      [] Shape(g.variant) = "VectorMatrix" -> VectorMatrix_encode_spatialite(g.coordinates, e)
      [] Shape(g.variant) = "VectorTensor" -> VectorTensor_encode_spatialite(g.coordinates, e)

\* SpatiaLiteGeometry::encode_to_stream_with_endianess (fill: see srid).
\* val holds the bytes written; a panic in mbr() leaves the first six.
SpatiaLite_encode_to_stream_with_endianess(g, e, fill) ==
    LET head == write_u8(0) \o write_u8(EndianessToU8(e)) \o write_u32(srid(g, fill), e)
        m == mbr(g)
    IN IF m.tag # "Ok" THEN [tag |-> "Panic", val |-> head, pos |-> 0]
       ELSE Ok(head
               \o MBR_encode_spatialite(m.val, e)
               \o GeometryKind_encode_spatialite(kind(g), e)
               \o Coordinates_encode_spatialite(g, e)
               \o write_u8(254), 0)

\* Vector::decode_spatialite
RECURSIVE Vector_decode_spatialite_loop(_, _, _, _, _)
Vector_decode_spatialite_loop(s, p, e, n, acc) ==
    IF n = 0 THEN Ok(acc, p)
    ELSE Let(read_f64(s, p, e), LAMBDA r :
         IF ~r.ok THEN Err("UnexpectedEof")
         ELSE Vector_decode_spatialite_loop(s, r.pos, e, n - 1, Append(acc, r.val)))

Vector_decode_spatialite(s, p, e, N) == Vector_decode_spatialite_loop(s, p, e, N, <<>>)

\* VectorArray::decode_spatialite
RECURSIVE VectorArray_decode_spatialite_loop(_, _, _, _, _, _)
VectorArray_decode_spatialite_loop(s, p, e, N, n, acc) ==
    IF n = 0 THEN Ok(acc, p)
    ELSE Let(Vector_decode_spatialite(s, p, e, N), LAMBDA r :
         IF r.tag # "Ok" THEN r
         ELSE VectorArray_decode_spatialite_loop(s, r.pos, e, N, n - 1, Append(acc, r.val)))

VectorArray_decode_spatialite(s, p, e, N, alloc) ==
    Let(read_u32(s, p, e), LAMBDA nb_points :
    IF ~nb_points.ok THEN Err("UnexpectedEof")
    ELSE IF ~with_capacity(U32ToNat(nb_points.val), 8 * N, alloc)
    THEN Abort("memory allocation failed")
    ELSE VectorArray_decode_spatialite_loop(s, nb_points.pos, e, N,
                                            U32ToNat(nb_points.val), <<>>))

\* VectorMatrix::decode_spatialite
RECURSIVE VectorMatrix_decode_spatialite_loop(_, _, _, _, _, _, _)
VectorMatrix_decode_spatialite_loop(s, p, e, N, n, acc, alloc) ==
    IF n = 0 THEN Ok(acc, p)
    ELSE Let(VectorArray_decode_spatialite(s, p, e, N, alloc), LAMBDA r :
         IF r.tag # "Ok" THEN r
         ELSE VectorMatrix_decode_spatialite_loop(s, r.pos, e, N, n - 1, Append(acc, r.val), alloc))

VectorMatrix_decode_spatialite(s, p, e, N, alloc) ==
    Let(read_u32(s, p, e), LAMBDA nb_points :
    IF ~nb_points.ok THEN Err("UnexpectedEof")
    ELSE IF ~with_capacity(U32ToNat(nb_points.val), 24, alloc)
    THEN Abort("memory allocation failed")
    ELSE VectorMatrix_decode_spatialite_loop(s, nb_points.pos, e, N,
                                             U32ToNat(nb_points.val), <<>>, alloc))

\* VectorTensor::decode_spatialite
RECURSIVE VectorTensor_decode_spatialite_loop(_, _, _, _, _, _, _)
VectorTensor_decode_spatialite_loop(s, p, e, N, n, acc, alloc) ==
    IF n = 0 THEN Ok(acc, p)
    ELSE Let(VectorMatrix_decode_spatialite(s, p, e, N, alloc), LAMBDA r :
         IF r.tag # "Ok" THEN r
         ELSE VectorTensor_decode_spatialite_loop(s, r.pos, e, N, n - 1, Append(acc, r.val), alloc))

VectorTensor_decode_spatialite(s, p, e, N, alloc) ==
    Let(read_u32(s, p, e), LAMBDA nb_points :
    IF ~nb_points.ok THEN Err("UnexpectedEof")
    ELSE IF ~with_capacity(U32ToNat(nb_points.val), 24, alloc)
    THEN Abort("memory allocation failed")
    ELSE VectorTensor_decode_spatialite_loop(s, nb_points.pos, e, N,
                                             U32ToNat(nb_points.val), <<>>, alloc))

\* GenPoint .. GenMultiPolygon::decode_spatialite: the coordinates, then Self::new
Shape_decode_spatialite(k, s, p, e, alloc) ==
    Let(CASE Shape(k) = "Vector" -> Vector_decode_spatialite(s, p, e, Dim(k))
               [] Shape(k) = "VectorArray" -> VectorArray_decode_spatialite(s, p, e, Dim(k), alloc)
               [] Shape(k) = "VectorMatrix" -> VectorMatrix_decode_spatialite(s, p, e, Dim(k), alloc)
               [] Shape(k) = "VectorTensor" -> VectorTensor_decode_spatialite(s, p, e, Dim(k), alloc),
        LAMBDA c : IF c.tag # "Ok" THEN c ELSE Ok(New(k, c.val), c.pos))

\* SpatiaLiteGeometry::decode_from_stream_with_endianess
SpatiaLite_decode_from_stream_with_endianess(s, p, e, alloc) ==
    Let(read_u32(s, p, e), LAMBDA sr :
    IF ~sr.ok THEN Err("UnexpectedEof")
    ELSE Let(MBR_decode_spatialite(s, sr.pos, e), LAMBDA m :
    IF m.tag # "Ok" THEN m
    ELSE Let(GeometryKind_decode_spatialite(s, m.pos, e), LAMBDA k :
    IF k.tag # "Ok" THEN k
    ELSE IF k.val \in {"GeometryCollection", "GeometryCollectionZ"}
    THEN Panic("not yet implemented")
    ELSE Let(Shape_decode_spatialite(k.val, s, k.pos, e, alloc), LAMBDA g :
    IF g.tag # "Ok" THEN g
    ELSE Let(read_u8(s, g.pos), LAMBDA end :
    IF ~end.ok THEN Err("UnexpectedEof")
    ELSE IF end.val # 254 THEN Panic("assertion failed: end == 0xFE")
    ELSE Ok(set_srid(g.val, sr.val), end.pos))))))

\* SpatiaLiteGeometry::decode_from_stream
SpatiaLite_decode_from_stream(s, p, alloc) ==
    Let(read_u8(s, p), LAMBDA start :
    IF ~start.ok THEN Err("UnexpectedEof")
    ELSE IF start.val # 0 THEN Panic("assertion failed: start == 0")
    ELSE Let(read_u8(s, start.pos), LAMBDA endian :
    IF ~endian.ok THEN Err("UnexpectedEof")
    ELSE IF endian.val = BIG_ENDIAN
         THEN SpatiaLite_decode_from_stream_with_endianess(s, endian.pos, "BigEndian", alloc)
         ELSE SpatiaLite_decode_from_stream_with_endianess(s, endian.pos, "LittleEndian", alloc)))

(***************************************************************************)
(* GeoJSON (geo_json.rs).  A JSON value is a number, null or an array; the *)
(* document written for a geometry is its sequence of map entries.         *)
(***************************************************************************)
JsonNumber(f) == [json |-> "number", f |-> f, items |-> <<>>]
JsonNull == [json |-> "null", f |-> F0, items |-> <<>>]
JsonArray(items) == [json |-> "array", f |-> F0, items |-> items]

\* f64::is_finite: neither NaN nor an infinity
IsFinite(f) == ~(f[1] % 128 = 127 /\ f[2] >= 240)

\* serde_json Serializer::serialize_f64: a non-finite value is written as null
serialize_f64(f) == IF IsFinite(f) THEN JsonNumber(f) ELSE JsonNull

\* impl Serialize for VectorRef / VectorArrayRef / VectorMatrixRef / VectorTensorRef
VectorRef_serialize(v) == JsonArray([i \in 1..Len(v) |-> serialize_f64(v[i])])
VectorArrayRef_serialize(a) == JsonArray([i \in 1..Len(a) |-> VectorRef_serialize(a[i])])
VectorMatrixRef_serialize(m) == JsonArray([i \in 1..Len(m) |-> VectorArrayRef_serialize(m[i])])
VectorTensorRef_serialize(t) == JsonArray([i \in 1..Len(t) |-> VectorMatrixRef_serialize(t[i])])

\* impl Serialize for GeoJsonCoordinatesRef
GeoJsonCoordinatesRef_serialize(g) ==
    CASE Shape(g.variant) = "Vector" -> VectorRef_serialize(g.coordinates)
      [] Shape(g.variant) = "VectorArray" -> VectorArrayRef_serialize(g.coordinates)
      [] Shape(g.variant) = "VectorMatrix" -> VectorMatrixRef_serialize(g.coordinates)
      [] Shape(g.variant) = "VectorTensor" -> VectorTensorRef_serialize(g.coordinates)

\* impl Serialize for GeoJsonGeometry: the entries "type" and "coordinates"
GeoJsonGeometry_serialize(g) ==
    <<[key |-> "type", value |-> as_ref(kind(g))],
      [key |-> "coordinates", value |-> GeoJsonCoordinatesRef_serialize(g)]>>

\* GeometryKindVisitor::visit_str
GeometryKindVisitor_visit_str(v) ==
    CASE v = "Point" -> Ok("Point", 0)
      [] v = "LineString" -> Ok("LineString", 0)
      [] v = "Polygon" -> Ok("Polygon", 0)
      [] v = "MultiPoint" -> Ok("MultiPoint", 0)
      [] v = "MultiLineString" -> Ok("MultiLineString", 0)
      [] v = "MultiPolygon" -> Ok("MultiPolygon", 0)
      [] v = "GeometryCollection" -> Ok("GeometryCollection", 0)
      [] OTHER -> Err("expecting Point, LineString, ...")

\* j deserialises as [f64; N]: an array of exactly N numbers; as Vec<[f64; N]>,
\* Vec<Vec<[f64; N]>>, Vec<Vec<Vec<[f64; N]>>>: an array of such values
IsJsonVector(j, N) ==
    /\ j.json = "array"
    /\ Len(j.items) = N
    /\ \A i \in 1..N : j.items[i].json = "number"
IsJsonVectorArray(j, N) ==
    j.json = "array" /\ \A i \in 1..Len(j.items) : IsJsonVector(j.items[i], N)
IsJsonVectorMatrix(j, N) ==
    j.json = "array" /\ \A i \in 1..Len(j.items) : IsJsonVectorArray(j.items[i], N)
IsJsonVectorTensor(j, N) ==
    j.json = "array" /\ \A i \in 1..Len(j.items) : IsJsonVectorMatrix(j.items[i], N)

\* the value deserialised from j
FromJsonVector(j) == [i \in 1..Len(j.items) |-> j.items[i].f]
FromJsonVectorArray(j) == [i \in 1..Len(j.items) |-> FromJsonVector(j.items[i])]
FromJsonVectorMatrix(j) == [i \in 1..Len(j.items) |-> FromJsonVectorArray(j.items[i])]
FromJsonVectorTensor(j) == [i \in 1..Len(j.items) |-> FromJsonVectorMatrix(j.items[i])]

\* a value of enum Coordinates
Coordinates(shape, dim, val) == [shape |-> shape, dim |-> dim, val |-> val]

\* #[serde(untagged)] enum GeoJsonCoordinates, then impl From<GeoJsonCoordinates>
\* for Coordinates: the first alternative, in declaration order, that j
\* deserialises as
GeoJsonCoordinates_deserialize(j) ==
    IF IsJsonVector(j, 2) THEN Ok(Coordinates("Vector", 2, FromJsonVector(j)), 0)
    ELSE IF IsJsonVectorArray(j, 2)
    THEN Ok(Coordinates("VectorArray", 2, FromJsonVectorArray(j)), 0)
    ELSE IF IsJsonVectorMatrix(j, 2)
    THEN Ok(Coordinates("VectorMatrix", 2, FromJsonVectorMatrix(j)), 0)
    ELSE IF IsJsonVectorTensor(j, 2)
    THEN Ok(Coordinates("VectorTensor", 2, FromJsonVectorTensor(j)), 0)
    ELSE IF IsJsonVector(j, 3) THEN Ok(Coordinates("Vector", 3, FromJsonVector(j)), 0)
    ELSE IF IsJsonVectorArray(j, 3)
    THEN Ok(Coordinates("VectorArray", 3, FromJsonVectorArray(j)), 0)
    ELSE IF IsJsonVectorMatrix(j, 3)
    THEN Ok(Coordinates("VectorMatrix", 3, FromJsonVectorMatrix(j)), 0)
    ELSE IF IsJsonVectorTensor(j, 3)
    THEN Ok(Coordinates("VectorTensor", 3, FromJsonVectorTensor(j)), 0)
    ELSE Err("data did not match any variant of untagged enum GeoJsonCoordinates")

\* Option::None of the two fields collected by visit_map
NoField == Err("missing field")

\* GeometryVisitor::visit_map: the loop over the entries from index i, then
\* the match on (kind, coords)
RECURSIVE GeometryVisitor_visit_map_loop(_, _, _, _)
GeometryVisitor_visit_map_loop(doc, i, k, c) ==
    IF i > Len(doc)
    THEN IF k.tag # "Ok" THEN Err("missing field type")
         ELSE IF c.tag # "Ok" THEN Err("missing field coordinates")
         ELSE IF k.val \in Variants /\ Shape(k.val) = c.val.shape /\ Dim(k.val) = c.val.dim
              THEN Ok(New(k.val, c.val.val), 0)
              ELSE Err("incompatible geometry type with the given coordinates")
    ELSE IF doc[i].key = "type"
         THEN Let(GeometryKindVisitor_visit_str(doc[i].value), LAMBDA r :
              IF r.tag # "Ok" THEN r ELSE GeometryVisitor_visit_map_loop(doc, i + 1, r, c))
         ELSE IF doc[i].key = "coordinates"
         THEN Let(GeoJsonCoordinates_deserialize(doc[i].value), LAMBDA r :
              IF r.tag # "Ok" THEN r ELSE GeometryVisitor_visit_map_loop(doc, i + 1, k, r))
         ELSE GeometryVisitor_visit_map_loop(doc, i + 1, k, c)

GeometryVisitor_visit_map(doc) == GeometryVisitor_visit_map_loop(doc, 1, NoField, NoField)

\* impl Deserialize for GeoJsonGeometry
GeoJsonGeometry_deserialize(doc) == GeometryVisitor_visit_map(doc)

(***************************************************************************)
(* The program as a state machine: a caller constructs a Geometry, may     *)
(* assign its SRID, encodes it with one of the codecs, and a stream (the   *)
(* encoding, a truncated or altered copy of it, or a buffer produced by a  *)
(* database engine) is decoded; a Geometry may be asked its kind and be    *)
(* narrowed to a shape type.                                               *)
(***************************************************************************)
VARIABLES args, geom, pc, codec, endian, stream, tamper, target, result, calls
vars == <<args, geom, pc, codec, endian, stream, tamper, target, result, calls>>

\* the sequences over S of length 0..n
SeqsUpTo(S, n) == UNION {[1..k -> S] : k \in 0..n}

\* coordinate tuples handed to constructors
Vectors(N) ==
    IF N = 2 THEN {<<F0, F0>>, <<F1, F2>>}
    ELSE {<<F0, F0, F0>>, <<F1, F2, F10>>}
VectorArrays(N) == SeqsUpTo(Vectors(N), MaxPts)
VectorMatrices(N) == SeqsUpTo(VectorArrays(N), MaxRings)
VectorTensors(N) == SeqsUpTo(VectorMatrices(N), MaxPolys)

\* the coordinate structures a constructor of variant v accepts
CoordinatesOf(v) ==
    CASE Shape(v) = "Vector" -> Vectors(Dim(v))
      [] Shape(v) = "VectorArray" -> VectorArrays(Dim(v))
      [] Shape(v) = "VectorMatrix" -> VectorMatrices(Dim(v))
      [] Shape(v) = "VectorTensor" -> VectorTensors(Dim(v))

\* SRIDs a caller assigns: 4326 and 3857
SridValues == {DEFAULT_SRID, <<0, 0, 15, 17>>}
\* candidate values of Geometry::srid on an absent SRID
FillValues == {<<0, 0, 0, 0>>, DEFAULT_SRID}
\* byte values written over a byte of the stream
CorruptBytes == {2, 7, 153}

NoTamper == [how |-> "none", at |-> 0]
NoResult == [tag |-> "None", val |-> <<>>, pos |-> 0]

\* T::new(args) for a shape type T, wrapped in its Geometry variant
Init ==
    /\ \E v \in Variants : \E c \in CoordinatesOf(v) : args = c /\ geom = New(v, c)
    /\ pc = "new"
    /\ codec = "none"
    /\ endian = "none"
    /\ stream = <<>>
    /\ tamper = NoTamper
    /\ target = "none"
    /\ result = NoResult
    /\ calls = <<>>

\* geometry.set_srid(s)
SetSrid(s) ==
    /\ pc = "new"
    /\ geom' = set_srid(geom, s)
    /\ UNCHANGED <<args, pc, codec, endian, stream, tamper, target, result, calls>>

\* T::new(coordinates of an already constructed geometry)
Rebuild ==
    /\ pc = "new"
    /\ args' = geom.coordinates
    /\ geom' = New(geom.variant, geom.coordinates)
    /\ pc' = "rebuilt"
    /\ UNCHANGED <<codec, endian, stream, tamper, target, result, calls>>

\* geometry.kind()
Kind ==
    /\ pc = "new"
    /\ result' = Ok(kind(geom), 0)
    /\ pc' = "kind"
    /\ UNCHANGED <<args, geom, codec, endian, stream, tamper, target, calls>>

\* T::try_from(geometry)
TryFrom(t) ==
    /\ pc = "new"
    /\ target' = t
    /\ result' = try_from(t, geom)
    /\ pc' = "narrowed"
    /\ UNCHANGED <<args, geom, codec, endian, stream, tamper, calls>>

\* EWKBGeometry::from(geometry).encode_to_stream_with_endianess::<e, _>(&mut stream)
EncodeEWKB(e, fill) ==
    /\ pc = "new"
    /\ stream' = EWKB_encode_to_stream_with_endianess(geom, e, fill)
    /\ codec' = "ewkb"
    /\ endian' = e
    /\ pc' = "encoded"
    /\ UNCHANGED <<args, geom, tamper, target, result, calls>>

\* SpatiaLiteGeometry::from(geometry).encode_to_stream_with_endianess::<e, _>(&mut stream)
EncodeSpatiaLite(e, fill) ==
    /\ pc = "new"
    /\ LET r == SpatiaLite_encode_to_stream_with_endianess(geom, e, fill) IN
       /\ stream' = r.val
       /\ pc' = IF r.tag = "Ok" THEN "encoded" ELSE "encode_panicked"
    /\ codec' = "spatialite"
    /\ endian' = e
    /\ UNCHANGED <<args, geom, tamper, target, result, calls>>

\* the decoder of the codec that wrote the encoding, on a cursor at the start
\* of the byte slice s (impl TryFrom<&[u8]>: Cursor::new, decode_from_stream)
decode(s, alloc) ==
    IF codec = "ewkb" THEN EWKB_decode_from_stream(s, 1, alloc)
    ELSE SpatiaLite_decode_from_stream(s, 1, alloc)

\* the whole encoding is decoded
Decode ==
    /\ pc = "encoded"
    /\ \E alloc \in Allocations : result' = decode(stream, alloc)
    /\ pc' = "decoded"
    /\ UNCHANGED <<args, geom, codec, endian, stream, tamper, target, calls>>

\* only the first n bytes of the encoding reach the decoder
DecodePrefix(n) ==
    /\ pc = "encoded"
    /\ n < Len(stream)
    /\ stream' = SubSeq(stream, 1, n)
    /\ tamper' = [how |-> "truncated", at |-> n]
    /\ \E alloc \in Allocations : result' = decode(stream', alloc)
    /\ pc' = "decoded"
    /\ UNCHANGED <<args, geom, codec, endian, target, calls>>

\* the framing bytes of an encoding: the markers and the kind code
FramePositions ==
    IF codec = "ewkb" THEN 1..5
    ELSE {1, 2, 39, Len(stream)} \cup 40..43

\* the encoding reaches the decoder with byte i replaced by b
DecodeAltered(i, b) ==
    /\ pc = "encoded"
    /\ i \in 1..Len(stream)
    /\ stream[i] # b
    /\ stream' = [stream EXCEPT ![i] = b]
    /\ tamper' = [how |-> "altered", at |-> i]
    /\ \E alloc \in Allocations : result' = decode(stream', alloc)
    /\ pc' = "decoded"
    /\ UNCHANGED <<args, geom, codec, endian, target, calls>>

\* the encoding reaches the decoder with its kind code replaced by the code
\* of the collection kind of the same dimensionality: 7 or 0x80000007 (EWKB,
\* SRID-present bit kept), 7 or 1007 (SpatiaLite)
DecodeCollection ==
    /\ pc = "encoded"
    /\ LET at == IF codec = "ewkb" THEN 2 ELSE 40
           code == IF codec = "ewkb"
                   THEN OrSridBit(IF Dim(geom.variant) = 2 THEN U32(7) ELSE U32Z(7))
                   ELSE (IF Dim(geom.variant) = 2 THEN U32(7) ELSE U32(1007))
       IN /\ stream' = SubSeq(stream, 1, at - 1) \o write_u32(code, endian)
                          \o SubSeq(stream, at + 4, Len(stream))
          /\ tamper' = [how |-> "collection", at |-> at]
    /\ \E alloc \in Allocations : result' = decode(stream', alloc)
    /\ pc' = "decoded"
    /\ UNCHANGED <<args, geom, codec, endian, target, calls>>

\* element counts no input of the model backs: 0xFFFFFFFF and 65536
HugeCounts == {<<255, 255, 255, 255>>, <<0, 1, 0, 0>>}

\* the encoding of a geometry that starts with a count reaches the decoder
\* with that count (bytes 9..12 in EWKB, 43..46 in SpatiaLite) replaced by w
DecodeCount(w) ==
    /\ pc = "encoded"
    /\ Shape(kind(geom)) # "Vector"
    /\ LET at == IF codec = "ewkb" THEN 10 ELSE 44
       IN /\ stream' = SubSeq(stream, 1, at - 1) \o write_u32(w, endian)
                          \o SubSeq(stream, at + 4, Len(stream))
          /\ tamper' = [how |-> "count", at |-> at]
    /\ \E alloc \in Allocations : result' = decode(stream', alloc)
    /\ pc' = "decoded"
    /\ UNCHANGED <<args, geom, codec, endian, target, calls>>

\* bytes that follow an encoding in the same stream
TrailingBytes == {<<0>>, <<255, 255, 255, 255, 255, 255, 255, 255, 255>>}

\* the decoder is handed a stream holding the encoding followed by t
DecodeTrailing(t) ==
    /\ pc = "encoded"
    /\ stream' = stream \o t
    /\ tamper' = [how |-> "trailing", at |-> Len(stream) + 1]
    /\ \E alloc \in Allocations : result' = decode(stream', alloc)
    /\ pc' = "decoded"
    /\ UNCHANGED <<args, geom, codec, endian, target, calls>>

\* the EWKB buffer a database engine sends for g (wire layout of PostGIS):
\* marker, type code with the SRID-present bit only when an SRID follows,
\* the SRID when carried, the coordinate payload
EWKB_wire(g, e) ==
    write_u8(EndianessToU8(e))
    \o write_u32(IF g.srid = NoSrid THEN EwkbCode(g.variant)
                 ELSE OrSridBit(EwkbCode(g.variant)), e)
    \o (IF g.srid = NoSrid THEN <<>> ELSE write_u32(g.srid, e))
    \o Coordinates_encode_ewkb(g, e)

\* EWKBGeometry::try_from(bytes) on a buffer received from the database
DecodeForeign(e) ==
    /\ pc = "new"
    /\ stream' = EWKB_wire([geom EXCEPT !.coordinates = args], e)
    /\ codec' = "ewkb"
    /\ endian' = e
    /\ tamper' = [how |-> "foreign", at |-> 0]
    /\ \E alloc \in Allocations : result' = EWKB_decode_from_stream(stream', 1, alloc)
    /\ pc' = "decoded"
    /\ UNCHANGED <<args, geom, target, calls>>

\* serde_json::to_string(&GeoJsonGeometry::new(geometry))
SerializeGeoJson ==
    /\ pc = "new"
    /\ stream' = GeoJsonGeometry_serialize(geom)
    /\ codec' = "geojson"
    /\ pc' = "serialized"
    /\ UNCHANGED <<args, geom, endian, tamper, target, result, calls>>

\* serde_json::from_str::<GeoJsonGeometry>(&encoded)
DeserializeGeoJson ==
    /\ pc = "serialized"
    /\ result' = GeoJsonGeometry_deserialize(stream)
    /\ pc' = "deserialized"
    /\ UNCHANGED <<args, geom, codec, endian, stream, tamper, target, calls>>

Next ==
    \/ \E s \in SridValues : SetSrid(s)
    \/ Rebuild
    \/ Kind
    \/ \E t \in Variants : TryFrom(t)
    \/ \E e \in Endianess, fill \in FillValues : EncodeEWKB(e, fill)
    \/ \E e \in Endianess, fill \in FillValues : EncodeSpatiaLite(e, fill)
    \/ Decode
    \/ \E n \in 0..(Len(stream) - 1) : DecodePrefix(n)
    \/ \E i \in FramePositions, b \in CorruptBytes : DecodeAltered(i, b)
    \/ DecodeCollection
    \/ \E w \in HugeCounts : DecodeCount(w)
    \/ \E t \in TrailingBytes : DecodeTrailing(t)
    \/ \E e \in Endianess : DecodeForeign(e)
    \/ SerializeGeoJson
    \/ DeserializeGeoJson

Spec == Init /\ [][Next]_vars

(***************************************************************************)
(* Polygons over rings that may hold a NaN coordinate: construction,       *)
(* reconstruction and the two codecs.                                      *)
(***************************************************************************)
\* f64::NAN
FNaN == <<127, 248, 0, 0, 0, 0, 0, 0>>
\* coordinate tuples of ring points
RingVectors(N) ==
    Vectors(N) \cup (IF N = 2 THEN {<<FNaN, F0>>} ELSE {<<FNaN, F0, F0>>})
\* the rings handed to Polygon::new
RingMatrices(N) == SeqsUpTo(SeqsUpTo(RingVectors(N), MaxPts), MaxRings)
PolygonVariants == {"Polygon", "PolygonZ"}

\* Polygon::new(args), wrapped in Geometry::Polygon / Geometry::PolygonZ
InitRing ==
    /\ \E v \in PolygonVariants : \E c \in RingMatrices(Dim(v)) :
          args = c /\ geom = New(v, c)
    /\ pc = "new"
    /\ codec = "none"
    /\ endian = "none"
    /\ stream = <<>>
    /\ tamper = NoTamper
    /\ target = "none"
    /\ result = NoResult
    /\ calls = <<>>

NextRing ==
    \/ Rebuild
    \/ \E e \in Endianess, fill \in FillValues : EncodeEWKB(e, fill)
    \/ \E e \in Endianess, fill \in FillValues : EncodeSpatiaLite(e, fill)
    \/ Decode
    \/ \E e \in Endianess : DecodeForeign(e)

SpecRing == InitRing /\ [][NextRing]_vars

\* every nesting level of the coordinate structure of g holds an element
NonEmptyCoordinates(g) ==
    CASE Shape(g.variant) = "Vector" -> TRUE
      [] Shape(g.variant) = "VectorArray" -> Len(g.coordinates) > 0
      [] Shape(g.variant) = "VectorMatrix" ->
            /\ Len(g.coordinates) > 0
            /\ \A i \in 1..Len(g.coordinates) : Len(g.coordinates[i]) > 0
      [] Shape(g.variant) = "VectorTensor" ->
            /\ Len(g.coordinates) > 0
            /\ \A i \in 1..Len(g.coordinates) :
                  /\ Len(g.coordinates[i]) > 0
                  /\ \A j \in 1..Len(g.coordinates[i]) : Len(g.coordinates[i][j]) > 0

\* the endianness a decoder must take from marker byte b
MarkerEndianess(b) == IF b = BIG_ENDIAN THEN "BigEndian" ELSE "LittleEndian"

\* the codes of the two kind tables
EwkbCodes == {U32(n) : n \in 1..7} \cup {U32Z(n) : n \in 1..7}
SpatialiteCodes == {U32(n) : n \in 1..7} \cup {U32(n) : n \in 1001..1007}

(***************************************************************************)
(* The kind-code tables on their own: a kind is written by one of the      *)
(* codecs and the code is read back.                                       *)
(***************************************************************************)
InitKind ==
    /\ \E v \in {"Point", "PointZ"} : \E c \in CoordinatesOf(v) :
          args = c /\ geom = New(v, c)
    /\ pc = "new"
    /\ codec = "none"
    /\ endian = "none"
    /\ stream = <<>>
    /\ tamper = NoTamper
    /\ target = "none"
    /\ result = NoResult
    /\ calls = <<>>

\* k.encode_ewkb::<e, _>(&mut stream)
EncodeKindEWKB(k, e) ==
    /\ pc = "new"
    /\ stream' = GeometryKind_encode_ewkb(k, e)
    /\ target' = k
    /\ codec' = "ewkb"
    /\ endian' = e
    /\ pc' = "kind_encoded"
    /\ UNCHANGED <<args, geom, tamper, result, calls>>

\* k.encode_spatialite::<e, _>(&mut stream)
EncodeKindSpatiaLite(k, e) ==
    /\ pc = "new"
    /\ stream' = GeometryKind_encode_spatialite(k, e)
    /\ target' = k
    /\ codec' = "spatialite"
    /\ endian' = e
    /\ pc' = "kind_encoded"
    /\ UNCHANGED <<args, geom, tamper, result, calls>>

\* GeometryKind::decode_ewkb / decode_spatialite on the code written
DecodeKind ==
    /\ pc = "kind_encoded"
    /\ result' = IF codec = "ewkb" THEN GeometryKind_decode_ewkb(stream, 1, endian)
                  ELSE GeometryKind_decode_spatialite(stream, 1, endian)
    /\ pc' = "kind_decoded"
    /\ UNCHANGED <<args, geom, codec, endian, stream, tamper, target, calls>>

\* GeometryKind::decode_ewkb on the code written, its SRID-present bit cleared
DecodeKindWithoutSridBit ==
    /\ pc = "kind_encoded"
    /\ codec = "ewkb"
    /\ stream' = write_u32(ClearSridBit(read_u32(stream, 1, endian).val), endian)
    /\ tamper' = [how |-> "no_srid_bit", at |-> 1]
    /\ result' = GeometryKind_decode_ewkb(stream', 1, endian)
    /\ pc' = "kind_decoded"
    /\ UNCHANGED <<args, geom, codec, endian, target, calls>>

NextKind ==
    \/ \E k \in GeometryKind, e \in Endianess : EncodeKindEWKB(k, e)
    \/ \E k \in GeometryKind, e \in Endianess : EncodeKindSpatiaLite(k, e)
    \/ DecodeKind
    \/ DecodeKindWithoutSridBit

SpecKind == InitKind /\ [][NextKind]_vars

(***************************************************************************)
(* Bounding boxes and SpatiaLite encodings of geometries whose tuples      *)
(* differ in x and y, negative scalars included.                           *)
(***************************************************************************)
\* -1.0, -2.0, 3.0, 5.0, 9.0
Fm1 == <<191, 240, 0, 0, 0, 0, 0, 0>>
Fm2 == <<192, 0, 0, 0, 0, 0, 0, 0>>
F3 == <<64, 8, 0, 0, 0, 0, 0, 0>>
F5 == <<64, 20, 0, 0, 0, 0, 0, 0>>
F9 == <<64, 34, 0, 0, 0, 0, 0, 0>>

\* points per ring of a multi-polygon
MaxPolyPts == 1

\* coordinate tuples: (-1, 2) and (1, -1), with z = 10 and z = -2
MbrVectors(N) ==
    IF N = 2 THEN {<<Fm1, F2>>, <<F1, Fm1>>}
    ELSE {<<Fm1, F2, F10>>, <<F1, Fm1, Fm2>>}
MbrArrays(N) == SeqsUpTo(MbrVectors(N), MaxPts)
MbrMatrices(N) == SeqsUpTo(MbrArrays(N), MaxRings)
MbrTensors(N) == SeqsUpTo(SeqsUpTo(SeqsUpTo(MbrVectors(N), MaxPolyPts), MaxRings), MaxPolys)
MbrCoordinatesOf(v) ==
    CASE Shape(v) = "Vector" -> MbrVectors(Dim(v))
      [] Shape(v) = "VectorArray" -> MbrArrays(Dim(v))
      [] Shape(v) = "VectorMatrix" -> MbrMatrices(Dim(v))
      [] Shape(v) = "VectorTensor" -> MbrTensors(Dim(v))

InitMbr ==
    /\ \E v \in Variants : \E c \in MbrCoordinatesOf(v) : args = c /\ geom = New(v, c)
    /\ pc = "new"
    /\ codec = "none"
    /\ endian = "none"
    /\ stream = <<>>
    /\ tamper = NoTamper
    /\ target = "none"
    /\ result = NoResult
    /\ calls = <<>>

\* geometry.mbr()
Mbr ==
    /\ pc = "new"
    /\ result' = mbr(geom)
    /\ pc' = "mbr"
    /\ UNCHANGED <<args, geom, codec, endian, stream, tamper, target, calls>>

NextMbr ==
    \/ \E s \in SridValues : SetSrid(s)
    \/ Mbr
    \/ \E e \in Endianess, fill \in FillValues : EncodeSpatiaLite(e, fill)

SpecMbr == InitMbr /\ [][NextMbr]_vars

(***************************************************************************)
(* Encodings of both codecs and SpatiaLite blobs that reach the decoder    *)
(* with another embedded MBR.                                              *)
(***************************************************************************)
\* a ring sequence of two rings (one point; three points, closed) and a
\* collection of two ring sequences
TwoRings(N) ==
    IF N = 2 THEN <<<<<<Fm1, F2>>>>, <<<<Fm1, F2>>, <<F1, Fm1>>, <<Fm1, F2>>>>>>
    ELSE <<<<<<Fm1, F2, F10>>>>, <<<<Fm1, F2, F10>>, <<F1, Fm1, Fm2>>, <<Fm1, F2, F10>>>>>>
TwoPolygons(N) ==
    <<TwoRings(N), <<<<IF N = 2 THEN <<F1, Fm1>> ELSE <<F1, Fm1, Fm2>>>>>>>>
\* the tuple of the rings built from the bounds
BlobPoint(N) == IF N = 2 THEN <<Fm1, F2>> ELSE <<Fm1, F2, F10>>
BlobMatrices(N) == SeqsUpTo(SeqsUpTo({BlobPoint(N)}, MaxPts), MaxRings) \cup {TwoRings(N)}
BlobTensors(N) ==
    SeqsUpTo(SeqsUpTo(SeqsUpTo({BlobPoint(N)}, MaxPolyPts), MaxRings), MaxPolys)
        \cup {TwoPolygons(N)}
BlobCoordinatesOf(v) ==
    CASE Shape(v) = "Vector" -> MbrVectors(Dim(v))
      [] Shape(v) = "VectorArray" -> MbrArrays(Dim(v))
      [] Shape(v) = "VectorMatrix" -> BlobMatrices(Dim(v))
      [] Shape(v) = "VectorTensor" -> BlobTensors(Dim(v))

InitBlob ==
    /\ \E v \in Variants : \E c \in BlobCoordinatesOf(v) : args = c /\ geom = New(v, c)
    /\ pc = "new"
    /\ codec = "none"
    /\ endian = "none"
    /\ stream = <<>>
    /\ tamper = NoTamper
    /\ target = "none"
    /\ result = NoResult
    /\ calls = <<>>

\* 32 bytes put in place of the embedded MBR: four zeros, four NaN, and the
\* big-endian floats 9, 9, -1, -1 (minimum above maximum)
OtherMbrs ==
    {[i \in 1..32 |-> 0], [i \in 1..32 |-> 255], F9 \o F9 \o Fm1 \o Fm1}

\* blob b with its bytes 6..37 replaced by m
WithMbr(b, m) == SubSeq(b, 1, 6) \o m \o SubSeq(b, 39, Len(b))

\* the blob reaches the decoder with its embedded MBR replaced by m
DecodeOtherMbr(m) ==
    /\ pc = "encoded"
    /\ codec = "spatialite"
    /\ SubSeq(stream, 7, 38) # m
    /\ stream' = WithMbr(stream, m)
    /\ tamper' = [how |-> "mbr", at |-> 7]
    /\ \E alloc \in Allocations : result' = decode(stream', alloc)
    /\ pc' = "decoded"
    /\ UNCHANGED <<args, geom, codec, endian, target, calls>>

NextBlob ==
    \/ \E e \in Endianess, fill \in FillValues : EncodeEWKB(e, fill)
    \/ \E e \in Endianess, fill \in FillValues : EncodeSpatiaLite(e, fill)
    \/ Decode
    \/ \E m \in OtherMbrs : DecodeOtherMbr(m)

SpecBlob == InitBlob /\ [][NextBlob]_vars

(***************************************************************************)
(* Bounding boxes of geometries whose tuples may hold a NaN coordinate.    *)
(***************************************************************************)
NaNArrays(N) == SeqsUpTo(RingVectors(N), MaxPts)
NaNMatrices(N) == SeqsUpTo(NaNArrays(N), MaxRings)
NaNTensors(N) == SeqsUpTo(NaNMatrices(N), MaxPolys)
NaNCoordinatesOf(v) ==
    CASE Shape(v) = "Vector" -> RingVectors(Dim(v))
      [] Shape(v) = "VectorArray" -> NaNArrays(Dim(v))
      [] Shape(v) = "VectorMatrix" -> NaNMatrices(Dim(v))
      [] Shape(v) = "VectorTensor" -> NaNTensors(Dim(v))

InitNaN ==
    /\ \E v \in Variants : \E c \in NaNCoordinatesOf(v) : args = c /\ geom = New(v, c)
    /\ pc = "new"
    /\ codec = "none"
    /\ endian = "none"
    /\ stream = <<>>
    /\ tamper = NoTamper
    /\ target = "none"
    /\ result = NoResult
    /\ calls = <<>>

NextNaN ==
    \/ Mbr
    \/ \E e \in Endianess, fill \in FillValues : EncodeSpatiaLite(e, fill)

SpecNaN == InitNaN /\ [][NextNaN]_vars

(***************************************************************************)
(* Two threads, each making one encode or decode call on a Geometry and a  *)
(* stream of its own.  A call advances by one read or write of its stream  *)
(* at a time; the threads share nothing but the process and its allocator. *)
(***************************************************************************)
NoGeometry == [variant |-> "none", coordinates |-> <<>>, srid |-> NoSrid]

\* the locals of an encode call on geometry g, before its first write
EncodeCall(op, g, e, fill) ==
    [op |-> op, geometry |-> g, e |-> e, fill |-> fill, stream |-> <<>>, pos |-> 1,
     step |-> IF op = "encode_ewkb" THEN "endianess" ELSE "start",
     kind |-> "none", srid |-> NoSrid, outcome |-> NoResult]

\* the locals of a decode call on a cursor at the start of s
DecodeCall(op, s) ==
    [op |-> op, geometry |-> NoGeometry, e |-> "none", fill |-> NoSrid, stream |-> s, pos |-> 1,
     step |-> IF op = "decode_ewkb" THEN "endianess" ELSE "start",
     kind |-> "none", srid |-> NoSrid, outcome |-> NoResult]

\* the call returns (or unwinds with) o
Return(c, o) == [c EXCEPT !.step = "done", !.outcome = o]

\* one write of EWKBGeometry::encode_to_stream_with_endianess
EWKB_encode_step(c) ==
    CASE c.step = "endianess" ->
            [c EXCEPT !.stream = @ \o write_u8(EndianessToU8(c.e)), !.step = "kind"]
      [] c.step = "kind" ->
            [c EXCEPT !.stream = @ \o GeometryKind_encode_ewkb(kind(c.geometry), c.e),
                      !.step = "srid"]
      [] c.step = "srid" ->
            [c EXCEPT !.stream = @ \o write_u32(srid(c.geometry, c.fill), c.e),
                      !.step = "coordinates"]
      [] c.step = "coordinates" ->
            Let(c.stream \o Coordinates_encode_ewkb(c.geometry, c.e), LAMBDA w :
                Return([c EXCEPT !.stream = w], Ok(w, 0)))

\* one write of SpatiaLiteGeometry::encode_to_stream_with_endianess
SpatiaLite_encode_step(c) ==
    CASE c.step = "start" ->
            [c EXCEPT !.stream = @ \o write_u8(0), !.step = "endianess"]
      [] c.step = "endianess" ->
            [c EXCEPT !.stream = @ \o write_u8(EndianessToU8(c.e)), !.step = "srid"]
      [] c.step = "srid" ->
            [c EXCEPT !.stream = @ \o write_u32(srid(c.geometry, c.fill), c.e),
                      !.step = "mbr"]
      [] c.step = "mbr" ->
            Let(mbr(c.geometry), LAMBDA m :
                IF m.tag # "Ok" THEN Return(c, [tag |-> "Panic", val |-> c.stream, pos |-> 0])
                ELSE [c EXCEPT !.stream = @ \o MBR_encode_spatialite(m.val, c.e),
                               !.step = "kind"])
      [] c.step = "kind" ->
            [c EXCEPT !.stream = @ \o GeometryKind_encode_spatialite(kind(c.geometry), c.e),
                      !.step = "coordinates"]
      [] c.step = "coordinates" ->
            [c EXCEPT !.stream = @ \o Coordinates_encode_spatialite(c.geometry, c.e),
                      !.step = "end"]
      [] c.step = "end" ->
            Let(c.stream \o write_u8(254), LAMBDA w :
                Return([c EXCEPT !.stream = w], Ok(w, 0)))

\* one read of EWKBGeometry::decode_from_stream
EWKB_decode_step(c, alloc) ==
    CASE c.step = "endianess" ->
            Let(read_u8(c.stream, c.pos), LAMBDA endianess :
                IF ~endianess.ok THEN Return(c, Err("UnexpectedEof"))
                ELSE [c EXCEPT !.e = IF endianess.val = BIG_ENDIAN
                                     THEN "BigEndian" ELSE "LittleEndian",
                               !.pos = endianess.pos, !.step = "kind"])
      [] c.step = "kind" ->
            Let(GeometryKind_decode_ewkb(c.stream, c.pos, c.e), LAMBDA k :
                IF k.tag # "Ok" THEN Return(c, k)
                ELSE [c EXCEPT !.kind = k.val, !.pos = k.pos, !.step = "srid"])
      [] c.step = "srid" ->
            Let(read_u32(c.stream, c.pos, c.e), LAMBDA sr :
                IF ~sr.ok THEN Return(c, Err("UnexpectedEof"))
                ELSE [c EXCEPT !.srid = sr.val, !.pos = sr.pos, !.step = "coordinates"])
      [] c.step = "coordinates" ->
            IF c.kind \in {"GeometryCollection", "GeometryCollectionZ"}
            THEN Return(c, Panic("not yet implemented"))
            ELSE Let(Shape_decode_ewkb(c.kind, c.stream, c.pos, c.e, alloc), LAMBDA g :
                     IF g.tag # "Ok" THEN Return(c, g)
                     ELSE Return([c EXCEPT !.pos = g.pos], Ok(set_srid(g.val, c.srid), g.pos)))

\* one read of SpatiaLiteGeometry::decode_from_stream
SpatiaLite_decode_step(c, alloc) ==
    CASE c.step = "start" ->
            Let(read_u8(c.stream, c.pos), LAMBDA start :
                IF ~start.ok THEN Return(c, Err("UnexpectedEof"))
                ELSE IF start.val # 0 THEN Return(c, Panic("assertion failed: start == 0"))
                ELSE [c EXCEPT !.pos = start.pos, !.step = "endianess"])
      [] c.step = "endianess" ->
            Let(read_u8(c.stream, c.pos), LAMBDA endianess :
                IF ~endianess.ok THEN Return(c, Err("UnexpectedEof"))
                ELSE [c EXCEPT !.e = IF endianess.val = BIG_ENDIAN
                                     THEN "BigEndian" ELSE "LittleEndian",
                               !.pos = endianess.pos, !.step = "srid"])
      [] c.step = "srid" ->
            Let(read_u32(c.stream, c.pos, c.e), LAMBDA sr :
                IF ~sr.ok THEN Return(c, Err("UnexpectedEof"))
                ELSE [c EXCEPT !.srid = sr.val, !.pos = sr.pos, !.step = "mbr"])
      [] c.step = "mbr" ->
            Let(MBR_decode_spatialite(c.stream, c.pos, c.e), LAMBDA m :
                IF m.tag # "Ok" THEN Return(c, m)
                ELSE [c EXCEPT !.pos = m.pos, !.step = "kind"])
      [] c.step = "kind" ->
            Let(GeometryKind_decode_spatialite(c.stream, c.pos, c.e), LAMBDA k :
                IF k.tag # "Ok" THEN Return(c, k)
                ELSE [c EXCEPT !.kind = k.val, !.pos = k.pos, !.step = "coordinates"])
      [] c.step = "coordinates" ->
            IF c.kind \in {"GeometryCollection", "GeometryCollectionZ"}
            THEN Return(c, Panic("not yet implemented"))
            ELSE Let(Shape_decode_spatialite(c.kind, c.stream, c.pos, c.e, alloc), LAMBDA g :
                     IF g.tag # "Ok" THEN Return(c, g)
                     ELSE [c EXCEPT !.geometry = g.val, !.pos = g.pos, !.step = "end"])
      [] c.step = "end" ->
            Let(read_u8(c.stream, c.pos), LAMBDA end :
                IF ~end.ok THEN Return(c, Err("UnexpectedEof"))
                ELSE IF end.val # 254 THEN Return(c, Panic("assertion failed: end == 0xFE"))
                ELSE Return([c EXCEPT !.pos = end.pos],
                            Ok(set_srid(c.geometry, c.srid), end.pos)))

\* thread i is left with locals c.  A panic unwinds thread i alone; a failed
\* allocation ends the process, and with it every call still running.
Proceed(i, c) ==
    IF c.outcome.tag = "Abort"
    THEN [j \in DOMAIN calls |->
            IF j = i THEN c
            ELSE IF calls[j].step = "done" THEN calls[j]
            ELSE [calls[j] EXCEPT !.step = "killed"]]
    ELSE [calls EXCEPT ![i] = c]

Running(i) == calls[i].step \notin {"done", "killed"}

StepEncodeEWKB(i) ==
    /\ calls[i].op = "encode_ewkb" /\ Running(i)
    /\ calls' = Proceed(i, EWKB_encode_step(calls[i]))
    /\ UNCHANGED <<args, geom, pc, codec, endian, stream, tamper, target, result>>

StepEncodeSpatiaLite(i) ==
    /\ calls[i].op = "encode_spatialite" /\ Running(i)
    /\ calls' = Proceed(i, SpatiaLite_encode_step(calls[i]))
    /\ UNCHANGED <<args, geom, pc, codec, endian, stream, tamper, target, result>>

StepDecodeEWKB(i) ==
    /\ calls[i].op = "decode_ewkb" /\ Running(i)
    /\ \E alloc \in Allocations : calls' = Proceed(i, EWKB_decode_step(calls[i], alloc))
    /\ UNCHANGED <<args, geom, pc, codec, endian, stream, tamper, target, result>>

StepDecodeSpatiaLite(i) ==
    /\ calls[i].op = "decode_spatialite" /\ Running(i)
    /\ \E alloc \in Allocations : calls' = Proceed(i, SpatiaLite_decode_step(calls[i], alloc))
    /\ UNCHANGED <<args, geom, pc, codec, endian, stream, tamper, target, result>>

\* the geometries the threads encode
ConcGeometries ==
    {New("Point", BlobPoint(2)),
     New("LineStringZ", <<BlobPoint(3), BlobPoint(3)>>),
     New("Polygon", TwoRings(2)),
     New("MultiPolygon", <<>>)}

\* the streams the threads decode: encodings, a cut one, and a LineString
\* whose point count is 65536
ConcStreams(op) ==
    IF op = "decode_ewkb"
    THEN {EWKB_encode_to_stream_with_endianess(g, e, DEFAULT_SRID) :
              g \in ConcGeometries, e \in Endianess}
         \cup {SubSeq(EWKB_encode_to_stream_with_endianess(New("Point", BlobPoint(2)),
                                                          "BigEndian", DEFAULT_SRID), 1, 12)}
         \cup {<<0, 32, 0, 0, 2>> \o DEFAULT_SRID \o <<0, 1, 0, 0>>}
    ELSE {SpatiaLite_encode_to_stream_with_endianess(g, e, DEFAULT_SRID).val :
              g \in ConcGeometries, e \in Endianess}

ConcCalls ==
    {EncodeCall(op, g, e, DEFAULT_SRID) :
        op \in {"encode_ewkb", "encode_spatialite"}, g \in ConcGeometries, e \in Endianess}
    \cup {DecodeCall("decode_ewkb", s) : s \in ConcStreams("decode_ewkb")}
    \cup {DecodeCall("decode_spatialite", s) : s \in ConcStreams("decode_spatialite")}

InitConc ==
    /\ \E a \in ConcCalls, b \in ConcCalls : calls = <<a, b>>
    /\ args = <<>>
    /\ geom = NoGeometry
    /\ pc = "threads"
    /\ codec = "none"
    /\ endian = "none"
    /\ stream = <<>>
    /\ tamper = NoTamper
    /\ target = "none"
    /\ result = NoResult

NextConc ==
    \/ \E i \in DOMAIN calls : StepEncodeEWKB(i)
    \/ \E i \in DOMAIN calls : StepEncodeSpatiaLite(i)
    \/ \E i \in DOMAIN calls : StepDecodeEWKB(i)
    \/ \E i \in DOMAIN calls : StepDecodeSpatiaLite(i)

SpecConc == InitConc /\ [][NextConc]_vars

(***************************************************************************)
(* Properties.                                                             *)
(***************************************************************************)
\* two coordinate tuples are equal: the same tuple, or equal as f64 values
SameTuple(a, b) == a = b \/ VectorEq(a, b)
\* every non-empty ring of the ring sequence m is closed
RingsClosed(m) ==
    \A i \in 1..Len(m) : Len(m[i]) > 0 => SameTuple(m[i][1], m[i][Len(m[i])])
\* the points (0,0), (0,1), (1,1), (1,0)
P00 == <<F0, F0>>
P01 == <<F0, F1>>
P11 == <<F1, F1>>
P10 == <<F1, F0>>

\* C1: EWKB round trip: decoding the bytes written by
\* encode_to_stream_with_endianess(g), for every variant, with or without an
\* SRID and for both endiannesses, returns a Geometry equal to g.
C1_EwkbRoundTrip ==
    (pc = "decoded" /\ codec = "ewkb" /\ tamper.how = "none")
        => (result.tag = "Ok" /\ GeometryEq(result.val, geom))

\* C2: SpatiaLite round trip: for every g with a non-empty coordinate
\* structure and both endiannesses, decoding the bytes written by
\* encode_to_stream_with_endianess(g) returns a Geometry equal to g.
C2_SpatiaLiteRoundTrip ==
    (pc = "decoded" /\ codec = "spatialite" /\ tamper.how = "none"
        /\ NonEmptyCoordinates(geom))
        => (result.tag = "Ok" /\ GeometryEq(result.val, geom))

\* C3: EWKB encoding sets the SRID-present bit of the type code exactly when
\* the Geometry carries an SRID and writes the SRID field exactly when the bit
\* is set; a 2D point without SRID encoded little-endian is 0x01, the type
\* code 0x00000001, then the two floats: 21 bytes.
C3_SridBitIffSrid ==
    (pc = "encoded" /\ codec = "ewkb") =>
        LET code == read_u32(stream, 2, endian).val
            payload == Coordinates_encode_ewkb(geom, endian)
        IN /\ HasBit(code[1], 32) <=> (geom.srid # NoSrid)
           /\ Len(stream) = 5 + (IF HasBit(code[1], 32) THEN 4 ELSE 0) + Len(payload)
           /\ (geom.variant = "Point" /\ geom.srid = NoSrid /\ endian = "LittleEndian")
                 => /\ Len(stream) = 21
                    /\ SubSeq(stream, 1, 5) = <<1, 1, 0, 0, 0>>
                    /\ SubSeq(stream, 6, 21) = payload

\* C4: EWKB decoding reads the SRID field only when the SRID-present bit is
\* set: on a well-formed buffer without the bit the payload is read right
\* after the type code and the Geometry has no SRID; with the bit the next
\* four bytes become the SRID.
C4_SridReadIffBit ==
    (pc = "decoded" /\ tamper.how = "foreign") =>
        LET code == read_u32(stream, 2, endian).val IN
        /\ result.tag = "Ok"
        /\ result.pos = Len(stream) + 1
        /\ result.val.variant = geom.variant
        /\ result.val.coordinates = geom.coordinates
        /\ IF HasBit(code[1], 32)
           THEN result.val.srid = read_u32(stream, 6, endian).val
           ELSE result.val.srid = NoSrid

\* C5: a kind code in neither table is an error returned to the caller: the
\* decoder returns Err, never aborts and never coerces the code to a kind.
C5_UnknownCodeIsErr ==
    /\ (pc = "decoded" /\ codec = "ewkb" /\ Len(stream) >= 5 /\ stream[1] \in {0, 1}
          /\ ClearSridBit(read_u32(stream, 2, MarkerEndianess(stream[1])).val) \notin EwkbCodes)
        => result.tag = "Err"
    /\ (pc = "decoded" /\ codec = "spatialite" /\ Len(stream) >= 43
          /\ stream[1] = 0 /\ stream[2] \in {0, 1} /\ stream[39] = 124
          /\ read_u32(stream, 40, MarkerEndianess(stream[2])).val \notin SpatialiteCodes)
        => result.tag = "Err"

\* C6: SpatiaLite decoding reports a wrong sentinel byte (start byte not 0x00,
\* byte after the MBR not 0x7C, byte after the payload not 0xFE) as an Err
\* and does not abort.
C6_SentinelMismatchIsErr ==
    (pc = "decoded" /\ codec = "spatialite"
        /\ \/ (Len(stream) >= 1 /\ stream[1] # 0)
           \/ (Len(stream) >= 39 /\ stream[39] # 124)
           \/ (tamper.how = "altered" /\ tamper.at = Len(stream)))
        => result.tag = "Err"

\* C7: an endianness marker byte in 2..255 is a malformed-format error in
\* both decoders: they return Err and never produce a Geometry.
C7_BadEndianMarkerIsErr ==
    /\ (pc = "decoded" /\ codec = "ewkb" /\ Len(stream) >= 1 /\ stream[1] \in 2..255)
        => result.tag = "Err"
    /\ (pc = "decoded" /\ codec = "spatialite" /\ Len(stream) >= 2 /\ stream[1] = 0
          /\ stream[2] \in 2..255)
        => result.tag = "Err"

\* C8: decoding any proper prefix of encode(g), the empty sequence included,
\* returns Err: never Ok with a Geometry, never an abort.
C8_TruncatedIsErr ==
    (pc = "decoded" /\ tamper.how = "truncated") => result.tag = "Err"

\* C9: narrowing a Geometry to shape type T succeeds exactly when the
\* Geometry is the variant T and returns the inner value unchanged; otherwise
\* it fails with InvalidGeometryKind, expecting the kind of T and got the kind
\* of the Geometry's own variant.
C9_Narrowing ==
    pc = "narrowed" =>
        IF geom.variant = target
        THEN result.tag = "Ok" /\ result.val = geom
        ELSE result.tag = "Err"
             /\ result.val = [expecting |-> target, got |-> geom.variant]

\* C10: Geometry::kind returns the GeometryKind naming the value's own
\* variant, for each of the 12 variants; the kind of a MultiPoint has the
\* string form "MultiPoint".
C10_KindNamesVariant ==
    pc = "kind" =>
        /\ result.val = geom.variant
        /\ (geom.variant = "MultiPoint" => as_ref(result.val) = "MultiPoint")

C12_CloseRingIdempotent ==
    /\ (pc = "new" /\ geom.variant \in PolygonVariants) =>
          \A i \in 1..Len(args) : close_ring(close_ring(args[i])) = close_ring(args[i])
    /\ (pc = "rebuilt" /\ geom.variant \in PolygonVariants) =>
          VectorMatrixEq(geom.coordinates, args) \/ geom.coordinates = args

\* the coordinate tuples of g at every nesting level
AllTuples(g) ==
    CASE Shape(g.variant) = "Vector" -> {g.coordinates}
      [] Shape(g.variant) = "VectorArray" ->
            {g.coordinates[i] : i \in 1..Len(g.coordinates)}
      [] Shape(g.variant) = "VectorMatrix" ->
            UNION {{g.coordinates[i][j] : j \in 1..Len(g.coordinates[i])} :
                   i \in 1..Len(g.coordinates)}
      [] Shape(g.variant) = "VectorTensor" ->
            UNION {UNION {{g.coordinates[i][j][k] : k \in 1..Len(g.coordinates[i][j])} :
                          j \in 1..Len(g.coordinates[i])} :
                   i \in 1..Len(g.coordinates)}
\* a <= b as f64 values
F64Leq(a, b) == partial_cmp(a, b) \in {"Less", "Equal"}
\* lo and hi are the least and the greatest scalar c over the tuples ts
IsRange(lo, hi, ts, c) ==
    /\ \E t \in ts : t[c] = lo
    /\ \E t \in ts : t[c] = hi
    /\ \A t \in ts : F64Leq(lo, t[c]) /\ F64Leq(t[c], hi)

C14_EmptyMbrIsErr ==
    /\ (pc = "mbr" /\ ~NonEmptyCoordinates(geom)) => result.tag = "Err"
    /\ (codec = "spatialite" /\ ~NonEmptyCoordinates(geom)) => pc # "encode_panicked"

\* the base code 1..6 of the shape of variant v, shared by both code tables
BaseCode(v) ==
    CASE v \in {"Point", "PointZ"} -> 1
      [] v \in {"LineString", "LineStringZ"} -> 2
      [] v \in {"Polygon", "PolygonZ"} -> 3
      [] v \in {"MultiPoint", "MultiPointZ"} -> 4
      [] v \in {"MultiLineString", "MultiLineStringZ"} -> 5
      [] v \in {"MultiPolygon", "MultiPolygonZ"} -> 6
      [] v \in {"GeometryCollection", "GeometryCollectionZ"} -> 7
\* the SpatiaLite class code of kind k: 1..7, and 1001..1007 for the 3D kinds
ClassCode(k) == U32(BaseCode(k) + (IF k \in Kinds2D \cup {"GeometryCollection"} THEN 0 ELSE 1000))

C16_EmbeddedMbr ==
    (pc = "encoded" /\ codec = "spatialite") =>
        LET min_x == read_f64(stream, 7, endian).val
            min_y == read_f64(stream, 15, endian).val
            max_x == read_f64(stream, 23, endian).val
            max_y == read_f64(stream, 31, endian).val
        IN /\ mbr(geom).tag = "Ok"
           /\ [min_x |-> min_x, min_y |-> min_y, max_x |-> max_x, max_y |-> max_y]
                 = mbr(geom).val
           /\ IsRange(min_x, max_x, AllTuples(geom), 1)
           /\ IsRange(min_y, max_y, AllTuples(geom), 2)

\* the big-endian encoding of a line string over (-1, 2) and (1, -1) embeds
\* -1, -1, 1, 2
C16_Witness ==
    /\ pc = "encoded" /\ codec = "spatialite" /\ endian = "BigEndian"
    /\ geom.variant = "LineString" /\ Len(geom.coordinates) = 2
    /\ SubSeq(stream, 7, 38) = Fm1 \o Fm1 \o F1 \o F2

\* C17: for every encodable g and endianness the EWKB bytes and the
\* SpatiaLite bytes of g differ, and each decoded with its own decoder yields
\* a Geometry equal to g, so the two decoded values are equal to each other.
C17_CrossCodec ==
    (pc = "decoded" /\ tamper.how = "none" /\ NonEmptyCoordinates(geom)) =>
        \A fill \in FillValues, alloc \in Allocations :
            LET ewkb == EWKB_encode_to_stream_with_endianess(geom, endian, fill)
                spatialite == SpatiaLite_encode_to_stream_with_endianess(geom, endian, fill)
                from_ewkb == EWKB_decode_from_stream(ewkb, 1, alloc)
                from_spatialite == SpatiaLite_decode_from_stream(spatialite.val, 1, alloc)
            IN /\ spatialite.tag = "Ok"
               /\ ewkb # spatialite.val
               /\ result.tag = "Ok" /\ GeometryEq(result.val, geom)
               /\ from_ewkb.tag = "Ok" /\ GeometryEq(from_ewkb.val, geom)
               /\ from_spatialite.tag = "Ok" /\ GeometryEq(from_spatialite.val, geom)
               /\ GeometryEq(from_ewkb.val, from_spatialite.val)

\* C18: the EWKB kind-code mapping is a bijection between the 14 kinds and
\* their codes: the 2D shapes map to 1..7, each 3D kind to the same base code
\* with bit 0x80000000, and decoding the code written for k returns k for
\* all 14 kinds, with or without the SRID-present bit.
C18_EwkbCodeBijection ==
    /\ (pc = "kind_encoded" /\ codec = "ewkb") =>
          /\ Len(stream) = 4
          /\ ClearSridBit(read_u32(stream, 1, endian).val)
                = (IF target \in Kinds2D \cup {"GeometryCollection"}
                   THEN U32(BaseCode(target)) ELSE U32Z(BaseCode(target)))
    /\ (pc = "kind_decoded" /\ codec = "ewkb") =>
          result.tag = "Ok" /\ result.val = target /\ result.pos = 5
    /\ \A k1, k2 \in GeometryKind : EwkbCode(k1) = EwkbCode(k2) => k1 = k2

\* the little-endian code of GeometryCollectionZ read back without its
\* SRID-present bit
C18_Witness ==
    /\ pc = "kind_decoded" /\ codec = "ewkb" /\ endian = "LittleEndian"
    /\ tamper.how = "no_srid_bit"
    /\ stream = <<7, 0, 0, 128>>
    /\ result.val = "GeometryCollectionZ"

\* C19: the SpatiaLite kind-code mapping is a bijection between the 14 kinds
\* and their codes: the 2D shapes map to 1..7, each 3D kind to 1000 plus its
\* base code, decode_spatialite of the code written for k returns k, and no
\* two kinds share a code in either direction.
C19_SpatialiteCodeBijection ==
    /\ (pc = "kind_encoded" /\ codec = "spatialite") =>
          /\ Len(stream) = 4
          /\ read_u32(stream, 1, endian).val = ClassCode(target)
    /\ (pc = "kind_decoded" /\ codec = "spatialite") =>
          result.tag = "Ok" /\ result.val = target /\ result.pos = 5
    /\ \A k1, k2 \in GeometryKind : SpatialiteCode(k1) = SpatialiteCode(k2) => k1 = k2

\* C20: the reserved GeometryCollection kinds are rejected at decode time as
\* a recoverable error: a well-framed EWKB buffer whose kind code is 7 or
\* 0x80000007, or a SpatiaLite blob whose class code is 7 or 1007, decodes to
\* Err; the decoder neither aborts nor yields a Geometry of another kind.
C20_CollectionIsErr ==
    (pc = "decoded" /\ tamper.how = "collection") => result.tag = "Err"

\* C21: GeoJSON round trip: for every geometry of the six 2D shapes as built
\* by its constructor, the serialised "type" is the name of the geometry's
\* own shape and deserialising the serialised document yields a value equal
\* to the original.
C21_GeoJsonRoundTrip ==
    (geom.variant \in Kinds2D /\ geom = New(geom.variant, args)) =>
        /\ pc \in {"serialized", "deserialized"} => stream[1].value = geom.variant
        /\ pc = "deserialized" => (result.tag = "Ok" /\ GeometryEq(result.val, geom))

\* two outcomes of a decoder are the same outcome
SameOutcome(a, b) == a.tag = b.tag /\ a.val = b.val /\ a.pos = b.pos

\* C22: the result of the SpatiaLite decoder does not depend on the embedded
\* MBR: two well-formed blobs that differ only in the 32 MBR bytes (bytes
\* 6..37) decode to the same result; the decoded MBR is never compared with
\* the coordinates.
C22_MbrIgnored ==
    (pc = "decoded" /\ codec = "spatialite" /\ tamper.how \in {"none", "mbr"}) =>
        \A m \in OtherMbrs \cup {SubSeq(stream, 7, 38)} :
            \E alloc \in Allocations :
                SameOutcome(SpatiaLite_decode_from_stream(WithMbr(stream, m), 1, alloc), result)

\* a polygon blob whose MBR bytes were all replaced by 0xFF decodes to the
\* polygon
C22_Witness ==
    /\ pc = "decoded" /\ codec = "spatialite" /\ tamper.how = "mbr"
    /\ \A i \in 7..38 : stream[i] = 255
    /\ geom.variant = "Polygon" /\ Len(geom.coordinates) > 0
    /\ result.tag = "Ok" /\ GeometryEq(result.val, geom)

\* the bytes of an EWKB encoding after its header (marker, type code, SRID)
EwkbPayload(b) == SubSeq(b, 10, Len(b))
\* the bytes of a SpatiaLite encoding between its class code and its 0xFE
SpatialitePayload(b) == SubSeq(b, 44, Len(b) - 1)

\* C23: the coordinate payload is the same in both formats: for every
\* Geometry and endianness, the bytes of the EWKB encoding after its header
\* equal the bytes of the SpatiaLite encoding between its class code and its
\* final 0xFE.
C23_SamePayload ==
    /\ \A e \in Endianess : Coordinates_encode_ewkb(geom, e) = Coordinates_encode_spatialite(geom, e)
    /\ pc = "encoded" =>
          \A fill \in FillValues :
              LET ewkb == EWKB_encode_to_stream_with_endianess(geom, endian, fill)
                  blob == SpatiaLite_encode_to_stream_with_endianess(geom, endian, fill)
              IN /\ codec = "ewkb" =>
                       (blob.tag = "Ok" => EwkbPayload(stream) = SpatialitePayload(blob.val))
                 /\ codec = "spatialite" => SpatialitePayload(stream) = EwkbPayload(ewkb)

\* the SpatiaLite encoding of a 3D multi-polygon holding a point
C23_Witness ==
    /\ pc = "encoded" /\ codec = "spatialite" /\ geom.variant = "MultiPolygonZ"
    /\ NonEmptyCoordinates(geom)
    /\ Len(SpatialitePayload(stream)) >= 36

\* the sum of a sequence of numbers
RECURSIVE Sum(_)
Sum(ns) == IF Len(ns) = 0 THEN 0 ELSE Head(ns) + Sum(Tail(ns))

\* b holds tuple v: Len(v) floats of 8 bytes and nothing else
IsTuple(b, v, N, e) ==
    /\ Len(v) = N
    /\ Len(b) = 8 * N
    /\ \A j \in 1..N : read_f64(b, 8 * (j - 1) + 1, e).val = v[j]
\* the length of a point sequence of k tuples
PointSeqLen(a, N) == 4 + 8 * N * Len(a)
\* b holds point sequence a: its count, then its tuples in order
IsPointSeq(b, a, N, e) ==
    /\ Len(b) = PointSeqLen(a, N)
    /\ read_u32(b, 1, e).val = U32(Len(a))
    /\ \A i \in 1..Len(a) :
          IsTuple(SubSeq(b, 5 + 8 * N * (i - 1), 4 + 8 * N * i), a[i], N, e)
\* b holds ring sequence m: its count, then its point sequences in order
RingSeqLen(m, N) == 4 + Sum([i \in 1..Len(m) |-> PointSeqLen(m[i], N)])
IsRingSeq(b, m, N, e) ==
    /\ Len(b) = RingSeqLen(m, N)
    /\ read_u32(b, 1, e).val = U32(Len(m))
    /\ \A i \in 1..Len(m) :
          IsPointSeq(SubSeq(b, 1 + RingSeqLen(SubSeq(m, 1, i - 1), N), RingSeqLen(SubSeq(m, 1, i), N)),
                     m[i], N, e)
\* b holds ring-sequence collection t: its count, then its ring sequences
RingSeqCollectionLen(t, N) == 4 + Sum([i \in 1..Len(t) |-> RingSeqLen(t[i], N)])
IsRingSeqCollection(b, t, N, e) ==
    /\ Len(b) = RingSeqCollectionLen(t, N)
    /\ read_u32(b, 1, e).val = U32(Len(t))
    /\ \A i \in 1..Len(t) :
          IsRingSeq(SubSeq(b, 1 + RingSeqCollectionLen(SubSeq(t, 1, i - 1), N),
                           RingSeqCollectionLen(SubSeq(t, 1, i), N)),
                    t[i], N, e)

\* C24: payload layout: a tuple is N floats of 8 bytes without a length
\* prefix (N = 2 or 3); a point sequence, a ring sequence and a ring-sequence
\* collection are a 4-byte count of their direct elements followed by those
\* elements in order, so a point sequence of k tuples takes 4 + 8*N*k bytes;
\* Point is a tuple, LineString and MultiPoint a point sequence, Polygon and
\* MultiLineString a ring sequence, MultiPolygon a ring-sequence collection.
C24_PayloadLayout ==
    pc = "encoded" =>
        LET payload == IF codec = "ewkb" THEN EwkbPayload(stream) ELSE SpatialitePayload(stream)
            N == IF geom.variant \in Kinds2D THEN 2 ELSE 3
            c == geom.coordinates
        IN CASE geom.variant \in {"Point", "PointZ"} -> IsTuple(payload, c, N, endian)
             [] geom.variant \in {"LineString", "LineStringZ", "MultiPoint", "MultiPointZ"} ->
                   IsPointSeq(payload, c, N, endian)
             [] geom.variant \in {"Polygon", "PolygonZ", "MultiLineString", "MultiLineStringZ"} ->
                   IsRingSeq(payload, c, N, endian)
             [] geom.variant \in {"MultiPolygon", "MultiPolygonZ"} ->
                   IsRingSeqCollection(payload, c, N, endian)

\* the EWKB encoding of the polygon of two rings, of one and of three points:
\* 9 + 4 + (4 + 16) + (4 + 48) = 85 bytes
C24_Witness ==
    /\ pc = "encoded" /\ codec = "ewkb" /\ geom.variant = "Polygon"
    /\ Len(geom.coordinates) = 2
    /\ Len(geom.coordinates[1]) = 1 /\ Len(geom.coordinates[2]) = 3
    /\ Len(stream) = 85

\* C25: decoding terminates on every finite input: whatever the element
\* counts in the count prefixes, both decoders finish with Ok or Err, having
\* read no further than the end of the input.
C25_DecodeTerminates ==
    pc = "decoded" =>
        /\ result.tag \in {"Ok", "Err"}
        /\ result.tag = "Ok" => result.pos <= Len(stream) + 1

\* point sequence a has two or more tuples, one with a NaN first or second
\* scalar
NaNSequence(a) ==
    Len(a) >= 2 /\ \E i \in 1..Len(a) : IsNaN(a[i][1]) \/ IsNaN(a[i][2])
\* the point sequences of g
PointSequences(g) ==
    CASE Shape(g.variant) = "Vector" -> {}
      [] Shape(g.variant) = "VectorArray" -> {g.coordinates}
      [] Shape(g.variant) = "VectorMatrix" ->
            {g.coordinates[i] : i \in 1..Len(g.coordinates)}
      [] Shape(g.variant) = "VectorTensor" ->
            UNION {{g.coordinates[i][j] : j \in 1..Len(g.coordinates[i])} :
                   i \in 1..Len(g.coordinates)}

\* C27: a bounding-box computation that meets a NaN gives a defined outcome:
\* for every coordinate sequence of two or more tuples in which a first or
\* second scalar is NaN, the MBR computation returns an error or a sentinel
\* and does not abort; nor does the SpatiaLite encoding that embeds the MBR.
C27_NaNMbrDefined ==
    (NonEmptyCoordinates(geom) /\ \E a \in PointSequences(geom) : NaNSequence(a)) =>
        /\ pc = "mbr" => result.tag \in {"Ok", "Err"}
        /\ pc # "encode_panicked"

\* C28: the closed-ring invariant holds for multi-polygons: in every
\* MultiPolygon or MultiPolygonZ produced by MultiPolygon::new or by either
\* decoder, every non-empty ring of every member polygon has equal first and
\* last tuples.
C28_MultiPolygonRingsClosed ==
    /\ (pc \in {"new", "rebuilt"} /\ geom.variant \in {"MultiPolygon", "MultiPolygonZ"}) =>
          \A i \in 1..Len(geom.coordinates) : RingsClosed(geom.coordinates[i])
    /\ (pc = "decoded" /\ result.tag = "Ok"
          /\ result.val.variant \in {"MultiPolygon", "MultiPolygonZ"}) =>
          \A i \in 1..Len(result.val.coordinates) : RingsClosed(result.val.coordinates[i])

\* C29: a successful decode consumes exactly one encoded geometry: decoding a
\* stream that holds encode(g) followed by trailing bytes t returns a value
\* equal to g and leaves the stream at the first byte of t.
C29_TrailingBytesUntouched ==
    (pc = "decoded" /\ tamper.how = "trailing"
        /\ (codec = "spatialite" => NonEmptyCoordinates(geom))) =>
        /\ result.tag = "Ok"
        /\ GeometryEq(result.val, geom)
        /\ result.pos = tamper.at

\* C30: close_ring never aborts and never changes a degenerate ring: an empty
\* point sequence stays empty, a one-point sequence keeps its single point
\* and gains none; Polygon::new and the polygon decoders accept polygons
\* holding empty rings.
C30_DegenerateRingUnchanged ==
    /\ close_ring(<<>>) = <<>>
    /\ (pc \in {"new", "rebuilt"} /\ geom.variant \in PolygonVariants) =>
          \A i \in 1..Len(args) : Len(args[i]) <= 1 => geom.coordinates[i] = args[i]
    /\ (pc = "decoded" /\ tamper.how \in {"none", "foreign"}
          /\ geom.variant \in PolygonVariants
          /\ \E i \in 1..Len(geom.coordinates) : Len(geom.coordinates[i]) = 0) =>
          /\ result.tag = "Ok"
          /\ \A i \in 1..Len(geom.coordinates) :
                Len(geom.coordinates[i]) = 0 => Len(result.val.coordinates[i]) = 0

\* the outcome of call c when it is the only call of the process
RunAlone(c, alloc) ==
    CASE c.op = "encode_ewkb" ->
            Ok(EWKB_encode_to_stream_with_endianess(c.geometry, c.e, c.fill), 0)
      [] c.op = "encode_spatialite" ->
            SpatiaLite_encode_to_stream_with_endianess(c.geometry, c.e, c.fill)
      [] c.op = "decode_ewkb" -> EWKB_decode_from_stream(c.stream, 1, alloc)
      [] c.op = "decode_spatialite" -> SpatiaLite_decode_from_stream(c.stream, 1, alloc)

\* C26: encode and decode calls running concurrently on independent
\* geometries and streams do not interfere: under every interleaving of their
\* reads and writes, every call that has stopped has produced the bytes, or
\* the Geometry or error, it produces when it runs alone.
C26_NoInterference ==
    \A i \in DOMAIN calls :
        ~Running(i) =>
            \E alloc \in Allocations :
                SameOutcome(calls[i].outcome, RunAlone(calls[i], alloc))

====
